---------------------------- MODULE Spec2Model ----------------------------
(***************************************************************************)
(* Fairness-monitoring backend: the predictive drift-and-risk engine.      *)
(*                                                                         *)
(* Numbers.  Every real quantity of the program (a DIR value, a threshold, *)
(* a velocity) is a decimal number; the model holds it as an integer count *)
(* of ticks, one tick being 0.00001 (Scale ticks make 1.0).  A quantity    *)
(* that the program obtains by a division (a mean, a slope) is held as an  *)
(* exact fraction [num, den] of ticks and compared by cross-multiplying.   *)
(* Rounding the program asks for explicitly (round(x, 4)) is modelled.  The *)
(* binary rounding error of IEEE doubles is less than any difference of    *)
(* two fractions of ticks; it decides a comparison only when the exact     *)
(* values are equal, and where the program compares a computed difference  *)
(* or truncates a computed quotient of stored DIR values the model lets    *)
(* the error fall on either side (FloatErr).                               *)
(***************************************************************************)
EXTENDS Integers, Sequences, FiniteSets, TLC

VARIABLES
    pc,                 \* "ready", or the name of the call that has returned
    risk_args,          \* arguments of the calculate_risk_score call
    risk_assessment,    \* what calculate_risk_score returned, or None
    y_true,             \* calculate_all_metrics: the true labels (a 0/1 array)
    y_pred,             \* calculate_all_metrics: the predicted labels
    protected_attribute,\* calculate_all_metrics: 0 = privileged, 1 = protected
    metrics_out,        \* what calculate_all_metrics returned, or None
    fairness_trend,     \* DriftMonitor's sqlite table: its dir values, oldest first
    db_readable,        \* whether the SELECT on that table succeeds
    drift_report,       \* what generate_drift_report returned, or None
    records,            \* db_manager's fairness_trends table, in insertion order
    clock,              \* the wall clock datetime.now() reads
    in_flight,          \* per request thread: the row store_fairness_check has
                        \* built and not yet committed, or None
    analysis,           \* the trend-analysis call made and what it returned, or None
    explain_args,       \* arguments of the EnhancedExplainer call
    explain_out,        \* what the EnhancedExplainer call returned, or None
    auth_issued,        \* auth.py: the tokens handed out so far
    REFRESH_TOKENS,     \* auth.py: the module's set of live refresh-token ids
    auth_now,           \* auth.py: the time jwt compares `exp` with
    auth_out,           \* the auth call made and what it returned, or None
    anchor_log,         \* blockchain_anchors.jsonl, one anchor per line
    anchor_pending,     \* per request thread: the anchor being made, or None
    registry,           \* ModelRegistry.registry: models and active_model
    registry_out        \* the registry call made and what it returned, or None

risk_vars == <<risk_args, risk_assessment>>
metrics_vars == <<y_true, y_pred, protected_attribute, metrics_out>>
drift_vars == <<fairness_trend, db_readable, drift_report>>
store_vars == <<records, clock, in_flight>>
trend_vars == <<store_vars, analysis>>
explain_vars == <<explain_args, explain_out>>
auth_vars == <<auth_issued, REFRESH_TOKENS, auth_now, auth_out>>
anchor_vars == <<anchor_log, anchor_pending>>
registry_vars == <<registry, registry_out>>
service_vars == <<explain_vars, auth_vars, anchor_vars, registry_vars>>
fairness_vars == <<risk_vars, metrics_vars, drift_vars, trend_vars>>
vars == <<pc, fairness_vars, service_vars>>

\* Python's None, and the value of a result that no call has produced yet.
None == [none |-> TRUE]

\* A component no call of the behaviour touches.
RiskIdle == risk_args = None /\ risk_assessment = None
MetricsIdle ==
    /\ y_true = <<>> /\ y_pred = <<>> /\ protected_attribute = <<>>
    /\ metrics_out = None
DriftIdle == fairness_trend = <<>> /\ db_readable = FALSE /\ drift_report = None

\* The request threads that can be inside store_fairness_check at once.
Writers == {"w1", "w2"}
NoWrite == [w \in Writers |-> None]

TrendIdle ==
    /\ records = <<>> /\ clock = 0 /\ in_flight = NoWrite
    /\ analysis = None

ExplainIdle == explain_args = None /\ explain_out = None
AuthIdle ==
    /\ auth_issued = {} /\ REFRESH_TOKENS = {} /\ auth_now = 0
    /\ auth_out = None
AnchorIdle == anchor_log = <<>> /\ anchor_pending = NoWrite
RegistryIdle ==
    /\ registry = [models |-> <<>>, active_model |-> None]
    /\ registry_out = None
ServiceIdle == ExplainIdle /\ AuthIdle /\ AnchorIdle /\ RegistryIdle
FairnessIdle == RiskIdle /\ MetricsIdle /\ DriftIdle /\ TrendIdle

Scale == 10 * 10000

Abs(x) == IF x < 0 THEN -x ELSE x
Max(a, b) == IF a >= b THEN a ELSE b
Min(a, b) == IF a <= b THEN a ELSE b

RECURSIVE Gcd(_, _)
Gcd(a, b) == IF b = 0 THEN a ELSE Gcd(b, a % b)

(* Fractions of ticks, den > 0.  Two fractions are compared over the least  *)
(* common denominator, which keeps the products small.                      *)
Rat(n, d) == [num |-> n, den |-> d]
RatCmp(a, b) ==
    LET g == Gcd(a.den, b.den)
    IN  a.num * (b.den \div g) - b.num * (a.den \div g)
RatLt(a, b) == RatCmp(a, b) < 0
RatLe(a, b) == RatCmp(a, b) <= 0
RatEq(a, b) == RatCmp(a, b) = 0

(***************************************************************************)
(* Config (biascheck_backend/config.py), in ticks.                         *)
(***************************************************************************)
DIR_THRESHOLD == 80000
DRIFT_VELOCITY_THRESHOLD == -1000
DRIFT_ACCELERATION_THRESHOLD == -500

(***************************************************************************)
(* DriftMonitor.calculate_risk_score (drift_monitor.py 207-267).           *)
(* velocity and acceleration are fractions of ticks, current_value and     *)
(* threshold are ticks.                                                    *)
(***************************************************************************)

\* velocity_risk = abs(velocity) if velocity < 0 else 0
velocity_risk_any_sign(velocity) == Rat(Abs(velocity.num), velocity.den)
velocity_risk(velocity) ==
    IF velocity.num < 0 THEN Rat(Abs(velocity.num), velocity.den)
    ELSE Rat(0, velocity.den)

\* acceleration_risk = abs(acceleration) if acceleration < 0 else 0
acceleration_risk(acceleration) ==
    IF acceleration.num < 0 THEN Rat(Abs(acceleration.num), acceleration.den)
    ELSE Rat(0, acceleration.den)

\* The denominator the three weighted terms share: 200000 * vd * ad, so that
\* risk_score = RiskNum / RiskDen.
RiskDen(velocity, acceleration) == 2 * Scale * velocity.den * acceleration.den

\* 0.4 * (1 - max(0, distance_to_threshold) / 0.2): the proximity term.  With
\* 0.2 = 20000 ticks it is 4 * (20000 - max(0, d)) / 200000.
proximity_term_clamped(distance_to_threshold) ==
    4 * Max(0, 20000 - Max(0, distance_to_threshold))
proximity_term_two_sided(distance_to_threshold) ==
    4 * (20000 - Abs(distance_to_threshold))
proximity_term(distance_to_threshold) ==
    4 * (20000 - Max(0, distance_to_threshold))

\* 0.35 * min(velocity_risk * 10, 1) = 7 * min(vr, 10000 ticks) / 200000
velocity_term(vr) == 7 * Min(vr.num, 10000 * vr.den)

\* 0.25 * min(acceleration_risk * 20, 1) = 10 * min(ar, 5000 ticks) / 200000
acceleration_term(ar) == 10 * Min(ar.num, 5000 * ar.den)

\* The weighted sum before the final clamp, as a numerator over RiskDen.
weighted_risk(velocity, acceleration, current_value, threshold) ==
    LET distance_to_threshold == current_value - threshold
        vr == velocity_risk(velocity)
        ar == acceleration_risk(acceleration)
    IN  proximity_term(distance_to_threshold) * velocity.den * acceleration.den
        + velocity_term(vr) * acceleration.den
        + acceleration_term(ar) * velocity.den

\* risk_score = max(0, min(risk_score, 1))
clamp_risk(num, den) == Max(0, Min(num, den))

\* if risk_score >= 0.7: HIGH elif risk_score >= 0.4: MEDIUM else: LOW
risk_level_strict(num, den) ==
    IF num > 7 * (den \div 10) THEN "HIGH"
    ELSE IF num > 4 * (den \div 10) THEN "MEDIUM"
    ELSE "LOW"
risk_level_of(num, den) ==
    IF num >= 7 * (den \div 10) THEN "HIGH"
    ELSE IF num >= 4 * (den \div 10) THEN "MEDIUM"
    ELSE "LOW"

severity_of(risk_level) ==
    IF risk_level = "HIGH" THEN "critical"
    ELSE IF risk_level = "MEDIUM" THEN "medium"
    ELSE "low"

\* needs_retraining = velocity < DRIFT_VELOCITY_THRESHOLD or
\*   acceleration < DRIFT_ACCELERATION_THRESHOLD or current_value < threshold
needs_retraining_inclusive(velocity, acceleration, current_value, threshold) ==
    \/ RatLe(velocity, Rat(DRIFT_VELOCITY_THRESHOLD, 1))
    \/ RatLe(acceleration, Rat(DRIFT_ACCELERATION_THRESHOLD, 1))
    \/ current_value <= threshold
needs_retraining_of(velocity, acceleration, current_value, threshold) ==
    \/ RatLt(velocity, Rat(DRIFT_VELOCITY_THRESHOLD, 1))
    \/ RatLt(acceleration, Rat(DRIFT_ACCELERATION_THRESHOLD, 1))
    \/ current_value < threshold

get_recommendation(risk_level, needs_retraining) ==
    IF risk_level = "HIGH"
    THEN IF needs_retraining THEN "CRITICAL: Immediate model retraining required"
         ELSE "HIGH RISK: Monitor closely"
    ELSE IF risk_level = "MEDIUM"
    THEN IF needs_retraining THEN "WARNING: Model retraining recommended within 48 hours"
         ELSE "MEDIUM RISK: Increase monitoring frequency"
    ELSE "LOW RISK: System operating within acceptable fairness parameters"

calculate_risk_score(velocity, acceleration, current_value, threshold) ==
    LET den == RiskDen(velocity, acceleration)
        num == clamp_risk(weighted_risk(velocity, acceleration, current_value, threshold), den)
        level == risk_level_of(num, den)
        retrain == needs_retraining_of(velocity, acceleration, current_value, threshold)
    IN  [ risk_score |-> Rat(num, den),
          risk_level |-> level,
          severity |-> severity_of(level),
          needs_retraining |-> retrain,
          factors |-> [ distance_to_threshold |-> current_value - threshold,
                        velocity_risk |-> velocity_risk(velocity),
                        acceleration_risk |-> acceleration_risk(acceleration) ],
          recommendation |-> get_recommendation(level, retrain) ]


(***************************************************************************)
(* MetricsEngine (biascheck_backend/metrics_engine.py).                    *)
(*                                                                         *)
(* The three inputs are numpy arrays of 0/1.  arr[mask] with a boolean     *)
(* mask of another length raises IndexError; a rate is a fraction          *)
(* count/size, and a metric value a fraction of ticks.  A calculate()      *)
(* yields either its result dict or Raised(e), the exception leaving it.   *)
(***************************************************************************)
SPD_THRESHOLD == 10000
EOD_THRESHOLD == 10000
AOD_THRESHOLD == 10000
THEIL_THRESHOLD == 15000

Raised(e) == [raised |-> TRUE, error |-> e]
Returned(v) == [returned |-> v]
IsRaised(r) == "raised" \in DOMAIN r

IndexError == "boolean index did not match indexed array"

\* mask.sum() for mask = (protected_attribute == g)
GroupSize(pa, g) == Cardinality({i \in 1..Len(pa) : pa[i] = g})

\* arr[mask] raises when the mask's length is not the array's
Mismatch(arr, pa) == Len(arr) /= Len(pa)

\* y_pred[mask].mean() if mask.sum() > 0 else 0: the index is evaluated only
\* when the group is not empty
RateRaises_empty_group(yp, pa, g) == GroupSize(pa, g) = 0 \/ Mismatch(yp, pa)
RateRaises(yp, pa, g) == GroupSize(pa, g) > 0 /\ Mismatch(yp, pa)
ApprovalRate(yp, pa, g) ==
    IF GroupSize(pa, g) > 0
    THEN Rat(Cardinality({i \in 1..Len(pa) : pa[i] = g /\ yp[i] = 1}), GroupSize(pa, g))
    ELSE Rat(0, 1)

RatAbs(r) == Rat(Abs(r.num), r.den)
RatSub(a, b) == Rat(a.num * b.den - b.num * a.den, a.den * b.den)
\* A rate as ticks
Ticks(r) == Rat(r.num * Scale, r.den)

PassFail(is_fair) == IF is_fair THEN "PASS" ELSE "FAIL"

\* is_fair = dir_value >= threshold
dir_is_fair_strict(dir_value, threshold) == RatLt(Rat(threshold, 1), dir_value)
dir_is_fair(dir_value, threshold) == RatLe(Rat(threshold, 1), dir_value)

\* protected_approval_rate / privileged_approval_rate if
\* privileged_approval_rate > 0 else 0, in ticks
dir_value_inverted(protected_approval_rate, privileged_approval_rate) ==
    IF protected_approval_rate.num > 0
    THEN Rat(privileged_approval_rate.num * protected_approval_rate.den * Scale,
             privileged_approval_rate.den * protected_approval_rate.num)
    ELSE Rat(0, 1)
dir_value_of(protected_approval_rate, privileged_approval_rate) ==
    IF privileged_approval_rate.num > 0
    THEN Rat(protected_approval_rate.num * privileged_approval_rate.den * Scale,
             protected_approval_rate.den * privileged_approval_rate.num)
    ELSE Rat(0, 1)

DisparateImpactRatio_calculate(yt, yp, pa) ==
    IF RateRaises(yp, pa, 0) \/ RateRaises(yp, pa, 1) THEN Raised(IndexError)
    ELSE
    LET privileged_approval_rate == ApprovalRate(yp, pa, 0)
        protected_approval_rate == ApprovalRate(yp, pa, 1)
        dir_value == dir_value_of(protected_approval_rate, privileged_approval_rate)
        is_fair == dir_is_fair(dir_value, DIR_THRESHOLD)
    IN  [ name |-> "Disparate Impact Ratio (DIR)",
          value |-> dir_value,
          threshold |-> DIR_THRESHOLD,
          is_fair |-> is_fair,
          status |-> PassFail(is_fair),
          privileged_rate |-> privileged_approval_rate,
          protected_rate |-> protected_approval_rate,
          gap |-> RatAbs(RatSub(privileged_approval_rate, protected_approval_rate)) ]

\* spd_value = protected_approval_rate - privileged_approval_rate, in ticks
spd_value_unsigned(protected_approval_rate, privileged_approval_rate) ==
    RatAbs(Ticks(RatSub(protected_approval_rate, privileged_approval_rate)))
spd_value_of(protected_approval_rate, privileged_approval_rate) ==
    Ticks(RatSub(protected_approval_rate, privileged_approval_rate))

StatisticalParityDifference_calculate(yt, yp, pa) ==
    IF RateRaises(yp, pa, 0) \/ RateRaises(yp, pa, 1) THEN Raised(IndexError)
    ELSE
    LET privileged_approval_rate == ApprovalRate(yp, pa, 0)
        protected_approval_rate == ApprovalRate(yp, pa, 1)
        spd_value == spd_value_of(protected_approval_rate, privileged_approval_rate)
        is_fair == RatLe(RatAbs(spd_value), Rat(SPD_THRESHOLD, 1))
    IN  [ name |-> "Statistical Parity Difference (SPD)",
          value |-> spd_value,
          threshold |-> SPD_THRESHOLD,
          is_fair |-> is_fair,
          status |-> PassFail(is_fair),
          privileged_rate |-> privileged_approval_rate,
          protected_rate |-> protected_approval_rate,
          absolute_difference |-> RatAbs(spd_value) ]

\* calculate_tpr / calculate_rates index y_true and y_pred with the mask
\* before anything else
GroupRatesRaise(yt, yp, pa) == Mismatch(yt, pa) \/ Mismatch(yp, pa)

\* Rows of group g with y_true = label, and those among them predicted 1
GroupLabelled(yt, pa, g, label) == {i \in 1..Len(pa) : pa[i] = g /\ yt[i] = label}
PredictedOne(yp, rows) == {i \in rows : yp[i] = 1}

\* TPR (label 1) or FPR (label 0) of group g, 0 when the group has no such row
GroupRate(yt, yp, pa, g, label) ==
    LET rows == GroupLabelled(yt, pa, g, label)
    IN  IF Cardinality(rows) = 0 THEN Rat(0, 1)
        ELSE Rat(Cardinality(PredictedOne(yp, rows)), Cardinality(rows))

EqualOpportunityDifference_calculate(yt, yp, pa) ==
    IF GroupRatesRaise(yt, yp, pa) THEN Raised(IndexError)
    ELSE
    LET privileged_tpr == GroupRate(yt, yp, pa, 0, 1)
        protected_tpr == GroupRate(yt, yp, pa, 1, 1)
        eod_value == Ticks(RatSub(protected_tpr, privileged_tpr))
        is_fair == RatLe(RatAbs(eod_value), Rat(EOD_THRESHOLD, 1))
    IN  [ name |-> "Equal Opportunity Difference (EOD)",
          value |-> eod_value,
          threshold |-> EOD_THRESHOLD,
          is_fair |-> is_fair,
          status |-> PassFail(is_fair),
          privileged_tpr |-> privileged_tpr,
          protected_tpr |-> protected_tpr,
          absolute_difference |-> RatAbs(eod_value) ]

AverageOddsDifference_calculate(yt, yp, pa) ==
    IF GroupRatesRaise(yt, yp, pa) THEN Raised(IndexError)
    ELSE
    LET privileged_tpr == GroupRate(yt, yp, pa, 0, 1)
        privileged_fpr == GroupRate(yt, yp, pa, 0, 0)
        protected_tpr == GroupRate(yt, yp, pa, 1, 1)
        protected_fpr == GroupRate(yt, yp, pa, 1, 0)
        tpr_diff == RatSub(protected_tpr, privileged_tpr)
        fpr_diff == RatSub(protected_fpr, privileged_fpr)
        \* aod_value = 0.5 * (tpr_diff + fpr_diff)
        aod_value == Rat((tpr_diff.num * fpr_diff.den + fpr_diff.num * tpr_diff.den) * Scale,
                         2 * tpr_diff.den * fpr_diff.den)
        is_fair == RatLe(RatAbs(aod_value), Rat(AOD_THRESHOLD, 1))
    IN  [ name |-> "Average Odds Difference (AOD)",
          value |-> aod_value,
          threshold |-> AOD_THRESHOLD,
          is_fair |-> is_fair,
          status |-> PassFail(is_fair),
          privileged_tpr |-> privileged_tpr,
          protected_tpr |-> protected_tpr,
          privileged_fpr |-> privileged_fpr,
          protected_fpr |-> protected_fpr,
          tpr_difference |-> tpr_diff,
          fpr_difference |-> fpr_diff ]

\* np.log of a whole number 1..100, in ticks (rounded to the nearest tick)
LnTicks ==
    << 0, 69315, 109861, 138629, 160944, 179176, 194591, 207944,
       219722, 230259, 239790, 248491, 256495, 263906, 270805, 277259,
       283321, 289037, 294444, 299573, 304452, 309104, 313549, 317805,
       321888, 325810, 329584, 333220, 336730, 340120, 343399, 346574,
       349651, 352636, 355535, 358352, 361092, 363759, 366356, 368888,
       371357, 373767, 376120, 378419, 380666, 382864, 385015, 387120,
       389182, 391202, 393183, 395124, 397029, 398898, 400733, 402535,
       404305, 406044, 407754, 409434, 411087, 412713, 414313, 415888,
       417439, 418965, 420469, 421951, 423411, 424850, 426268, 427667,
       429046, 430407, 431749, 433073, 434381, 435671, 436945, 438203,
       439445, 440672, 441884, 443082, 444265, 445435, 446591, 447734,
       448864, 449981, 451086, 452179, 453260, 454329, 455388, 456435,
       457471, 458497, 459512, 460517 >>

\* theil_contrib(rate, prop) * approved, in ticks, for the group with
\* `ones` approvals among `size` rows, `approved` approvals among `n` rows
\* overall: prop * (rate/overall) = ones/approved and
\* rate/overall = (ones * n) / (size * approved).
theil_contrib(ones, size, approved, n) ==
    IF ones = 0 \/ size = 0 THEN 0
    ELSE ones * (LnTicks[ones * n] - LnTicks[size * approved])

TheilIndex_calculate(yt, yp, pa) ==
    IF RateRaises(yp, pa, 0) \/ RateRaises(yp, pa, 1) THEN Raised(IndexError)
    ELSE
    LET privileged_rate == ApprovalRate(yp, pa, 0)
        protected_rate == ApprovalRate(yp, pa, 1)
        approved == Cardinality({i \in 1..Len(yp) : yp[i] = 1})
        \* overall_rate = y_pred.mean(): nan for an empty array
        overall_rate == IF Len(yp) = 0 THEN None ELSE Rat(approved, Len(yp))
        degenerate == Len(yp) > 0 /\ (approved = 0 \/ approved = Len(yp))
        \* if overall_rate == 0 or overall_rate == 1: 0 (false of nan), else the
        \* sum of the two contributions; with an empty y_pred both rates are 0
        \* and so is every contribution.
        theil_value ==
            IF degenerate \/ Len(yp) = 0 THEN Rat(0, 1)
            ELSE Rat(theil_contrib(privileged_rate.num, privileged_rate.den, approved, Len(pa))
                     + theil_contrib(protected_rate.num, protected_rate.den, approved, Len(pa)),
                     approved)
        is_fair == RatLe(theil_value, Rat(THEIL_THRESHOLD, 1))
    IN  [ name |-> "Theil Index",
          value |-> theil_value,
          threshold |-> THEIL_THRESHOLD,
          is_fair |-> is_fair,
          status |-> PassFail(is_fair),
          privileged_rate |-> privileged_rate,
          protected_rate |-> protected_rate,
          overall_rate |-> overall_rate,
          inequality_level |-> IF RatLt(theil_value, Rat(5000, 1)) THEN "LOW"
                               ELSE IF RatLt(theil_value, Rat(10000, 1)) THEN "MEDIUM"
                               ELSE "HIGH" ]

\* self.metrics, in insertion order
MetricIds == <<"DIR", "SPD", "EOD", "AOD", "THEIL">>
MetricIdSet == {MetricIds[i] : i \in 1..Len(MetricIds)}

metric_calculate(metric_id, yt, yp, pa) ==
    CASE metric_id = "DIR" -> DisparateImpactRatio_calculate(yt, yp, pa)
      [] metric_id = "SPD" -> StatisticalParityDifference_calculate(yt, yp, pa)
      [] metric_id = "EOD" -> EqualOpportunityDifference_calculate(yt, yp, pa)
      [] metric_id = "AOD" -> AverageOddsDifference_calculate(yt, yp, pa)
      [] metric_id = "THEIL" -> TheilIndex_calculate(yt, yp, pa)

metric_get_name(metric_id) ==
    CASE metric_id = "DIR" -> "Disparate Impact Ratio (DIR)"
      [] metric_id = "SPD" -> "Statistical Parity Difference (SPD)"
      [] metric_id = "EOD" -> "Equal Opportunity Difference (EOD)"
      [] metric_id = "AOD" -> "Average Odds Difference (AOD)"
      [] metric_id = "THEIL" -> "Theil Index"

\* try: results[metric_id] = metric.calculate(...)
\* except Exception as e: results[metric_id] = {name, value: None, error, status: ERROR}
try_calculate_no_except(metric_id, yt, yp, pa) == metric_calculate(metric_id, yt, yp, pa)
try_calculate(metric_id, yt, yp, pa) ==
    LET r == metric_calculate(metric_id, yt, yp, pa)
    IN  IF IsRaised(r)
        THEN [ name |-> metric_get_name(metric_id),
               value |-> None,
               error |-> r.error,
               status |-> "ERROR" ]
        ELSE r

\* r.get('is_fair', False)
get_is_fair(r) == IF "is_fair" \in DOMAIN r THEN r.is_fair ELSE FALSE

\* score == 1.0, >= 0.8, >= 0.6, >= 0.4 for score = passed / total
get_compliance_level_strict(passed, total) ==
    IF passed = total THEN "FULL_COMPLIANCE"
    ELSE IF 10 * passed > 8 * total THEN "HIGH_COMPLIANCE"
    ELSE IF 10 * passed > 6 * total THEN "MODERATE_COMPLIANCE"
    ELSE IF 10 * passed > 4 * total THEN "LOW_COMPLIANCE"
    ELSE "NON_COMPLIANT"
get_compliance_level(passed, total) ==
    IF passed = total THEN "FULL_COMPLIANCE"
    ELSE IF 10 * passed >= 8 * total THEN "HIGH_COMPLIANCE"
    ELSE IF 10 * passed >= 6 * total THEN "MODERATE_COMPLIANCE"
    ELSE IF 10 * passed >= 4 * total THEN "LOW_COMPLIANCE"
    ELSE "NON_COMPLIANT"

\* The call's outcome: the returned dict, or Raised(e) when an exception
\* leaves the loop over the metrics.
calculate_all_metrics(yt, yp, pa) ==
    LET results == [m \in MetricIdSet |-> try_calculate(m, yt, yp, pa)]
        escaped == {i \in 1..Len(MetricIds) : IsRaised(results[MetricIds[i]])}
        passed_metrics == Cardinality({m \in MetricIdSet : get_is_fair(results[m])})
        total_metrics == Cardinality(DOMAIN results)
    IN  IF escaped /= {}
        THEN results[MetricIds[CHOOSE i \in escaped : \A j \in escaped : i <= j]]
        ELSE [ all_metrics |-> results,
               summary |-> [ total_metrics |-> total_metrics,
                             passed |-> passed_metrics,
                             failed |-> total_metrics - passed_metrics,
                             fairness_score |-> Rat(passed_metrics, total_metrics),
                             overall_status |-> IF passed_metrics = total_metrics
                                                THEN "PASS" ELSE "FAIL",
                             compliance_level |-> get_compliance_level(passed_metrics,
                                                                       total_metrics) ] ]

(***************************************************************************)
(* calculate_all_metrics on every triple of 0/1 arrays of up to MaxSamples *)
(* rows each (the three lengths need not agree).                           *)
(***************************************************************************)
MaxSamples == 3

Arrays == UNION {[1..n -> {0, 1}] : n \in 0..MaxSamples}

MetricsInit ==
    /\ ServiceIdle
    /\ RiskIdle
    /\ DriftIdle
    /\ TrendIdle
    /\ y_true \in Arrays
    /\ y_pred \in Arrays
    /\ protected_attribute \in Arrays
    /\ metrics_out = None
    /\ pc = "ready"

\* engine.calculate_all_metrics(y_true, y_pred, protected_attribute)
MetricsCall ==
    /\ pc = "ready"
    /\ LET out == calculate_all_metrics(y_true, y_pred, protected_attribute)
       IN  /\ metrics_out' = out
           /\ pc' = IF IsRaised(out) THEN "raised" ELSE "calculate_all_metrics"
    /\ UNCHANGED <<y_true, y_pred, protected_attribute, risk_vars, drift_vars, trend_vars,
                   service_vars>>

SpecMetrics == MetricsInit /\ [][MetricsCall]_vars

MetricsDone == pc \in {"calculate_all_metrics", "raised"}

\* C1: calculate_all_metrics never raises because of a metric; its result has
\* exactly the entries DIR, SPD, EOD, AOD, THEIL; a metric whose calculation
\* raises has status ERROR, value null and the error message, and every
\* other metric holds what its own calculation returns (PASS or FAIL).
C1_FailureIsolatedPerMetric ==
    MetricsDone =>
        /\ pc = "calculate_all_metrics"
        /\ DOMAIN metrics_out.all_metrics = {"DIR", "SPD", "EOD", "AOD", "THEIL"}
        /\ \A m \in {"DIR", "SPD", "EOD", "AOD", "THEIL"} :
              LET own == metric_calculate(m, y_true, y_pred, protected_attribute)
                  entry == metrics_out.all_metrics[m]
              IN  IF IsRaised(own)
                  THEN /\ entry.status = "ERROR"
                       /\ entry.value = None
                       /\ entry.error = own.error
                  ELSE /\ entry = own
                       /\ entry.status \in {"PASS", "FAIL"}
                       /\ entry.value /= None

\* EOD and AOD raise (y_true is not as long as the mask) while DIR, SPD and
\* THEIL are computed in the same call.
C1_Witness ==
    /\ pc = "calculate_all_metrics"
    /\ metrics_out.all_metrics["EOD"].status = "ERROR"
    /\ metrics_out.all_metrics["AOD"].status = "ERROR"
    /\ metrics_out.all_metrics["DIR"].status = "PASS"
    /\ metrics_out.all_metrics["SPD"].status \in {"PASS", "FAIL"}
    /\ metrics_out.all_metrics["THEIL"].status \in {"PASS", "FAIL"}

\* The metrics whose entry says is_fair
FairMetrics ==
    {m \in {"DIR", "SPD", "EOD", "AOD", "THEIL"} :
        /\ metrics_out.all_metrics[m].status /= "ERROR"
        /\ metrics_out.all_metrics[m].is_fair}
Summary == metrics_out.summary

\* C15: passed counts the metrics with is_fair true, failed = total - passed
\* (an ERROR metric counts as failed), fairness_score = passed/total,
\* overall_status is PASS iff passed = total, and compliance_level is FULL,
\* HIGH, MODERATE, LOW, NON_COMPLIANT for 5, 4, 3, 2, at most 1 of the five
\* metrics passed.
C15_SummaryFromPassedCount ==
    pc = "calculate_all_metrics" =>
        /\ Summary.total_metrics = 5
        /\ Summary.passed = Cardinality(FairMetrics)
        /\ Summary.failed = 5 - Cardinality(FairMetrics)
        /\ RatEq(Summary.fairness_score, Rat(Cardinality(FairMetrics), 5))
        /\ Summary.overall_status = IF Cardinality(FairMetrics) = 5 THEN "PASS" ELSE "FAIL"
        /\ Summary.compliance_level =
               CASE Cardinality(FairMetrics) = 5 -> "FULL_COMPLIANCE"
                 [] Cardinality(FairMetrics) = 4 -> "HIGH_COMPLIANCE"
                 [] Cardinality(FairMetrics) = 3 -> "MODERATE_COMPLIANCE"
                 [] Cardinality(FairMetrics) = 2 -> "LOW_COMPLIANCE"
                 [] OTHER -> "NON_COMPLIANT"

\* Two metrics in ERROR count as failed: 3 of 5 passed, MODERATE_COMPLIANCE.
C15_Witness ==
    /\ pc = "calculate_all_metrics"
    /\ metrics_out.all_metrics["EOD"].status = "ERROR"
    /\ Summary.passed = 3
    /\ Summary.failed = 2
    /\ Summary.overall_status = "FAIL"
    /\ Summary.compliance_level = "MODERATE_COMPLIANCE"

(***************************************************************************)
(* calculate_all_metrics on two cohorts.  No metric looks at the order of  *)
(* the rows, so three arrays of one length are given by how many rows of   *)
(* each group carry each (y_true, y_pred) pair: the privileged rows first, *)
(* then the protected ones, each group's rows in the order of Outcomes.    *)
(***************************************************************************)
MaxGroup == 5

\* k copies of x
Rep(x, k) == [i \in 1..k |-> x]

\* (y_true, y_pred) of a row
Outcomes == << <<1, 1>>, <<1, 0>>, <<0, 1>>, <<0, 0>> >>

\* How many rows of a group carry each outcome: at most MaxGroup in all
Counts == {c \in [1..4 -> 0..MaxGroup] : c[1] + c[2] + c[3] + c[4] <= MaxGroup}

GroupColumn(c, col) ==
    Rep(Outcomes[1][col], c[1]) \o Rep(Outcomes[2][col], c[2])
        \o Rep(Outcomes[3][col], c[3]) \o Rep(Outcomes[4][col], c[4])
GroupRows(c) == c[1] + c[2] + c[3] + c[4]

CohortInit ==
    /\ ServiceIdle
    /\ RiskIdle
    /\ DriftIdle
    /\ TrendIdle
    /\ \E privileged \in Counts, protected \in Counts :
           /\ y_true = GroupColumn(privileged, 1) \o GroupColumn(protected, 1)
           /\ y_pred = GroupColumn(privileged, 2) \o GroupColumn(protected, 2)
           /\ protected_attribute = Rep(0, GroupRows(privileged))
                                        \o Rep(1, GroupRows(protected))
    /\ metrics_out = None
    /\ pc = "ready"

SpecCohorts == CohortInit /\ [][MetricsCall]_vars

\* The comparison rule of each metric
FairByRule(m, value, threshold) ==
    CASE m = "DIR" -> RatLe(Rat(threshold, 1), value)
      [] m \in {"SPD", "EOD", "AOD"} -> RatLe(RatAbs(value), Rat(threshold, 1))
      [] m = "THEIL" -> RatLe(value, Rat(threshold, 1))

\* C12: for every metric result that is not an ERROR entry, is_fair follows
\* from value and threshold alone (DIR: value >= threshold; SPD, EOD, AOD:
\* |value| <= threshold; THEIL: value <= threshold; equality is fair), and
\* status is PASS iff is_fair, FAIL otherwise.
C12_IsFairByValueAndThreshold ==
    pc = "calculate_all_metrics" =>
        \A m \in {"DIR", "SPD", "EOD", "AOD", "THEIL"} :
            LET entry == metrics_out.all_metrics[m]
            IN  entry.status /= "ERROR" =>
                    /\ entry.is_fair = FairByRule(m, entry.value, entry.threshold)
                    /\ entry.status = IF entry.is_fair THEN "PASS" ELSE "FAIL"

\* DIR exactly 0.8 (protected 4/5 against privileged 1/1) and SPD exactly
\* -0.1 (2/5 against 1/2) are both fair.
C12_Witness ==
    /\ pc = "calculate_all_metrics"
    /\ \/ /\ RatEq(metrics_out.all_metrics["DIR"].value, Rat(DIR_THRESHOLD, 1))
          /\ metrics_out.all_metrics["DIR"].value.num > 0
          /\ metrics_out.all_metrics["DIR"].is_fair
          /\ metrics_out.all_metrics["DIR"].status = "PASS"
       \/ /\ RatEq(RatAbs(metrics_out.all_metrics["SPD"].value), Rat(SPD_THRESHOLD, 1))
          /\ metrics_out.all_metrics["SPD"].is_fair
          /\ metrics_out.all_metrics["SPD"].status = "PASS"

\* Rows of group g, and those of them predicted 1
RowsOf(g) == {i \in 1..Len(protected_attribute) : protected_attribute[i] = g}
ApprovedOf(g) == {i \in RowsOf(g) : y_pred[i] = 1}
DirEntry == metrics_out.all_metrics["DIR"]

\* C13: DIR is the approval rate of the protected rows over that of the
\* privileged rows and never negative; when the privileged approval rate is
\* 0, an empty privileged group included, the value is 0 and is_fair false.
C13_DirIsRatioOfRates ==
    (pc = "calculate_all_metrics" /\ DirEntry.status /= "ERROR") =>
        LET n0 == Cardinality(RowsOf(0))
            a0 == Cardinality(ApprovedOf(0))
            n1 == Cardinality(RowsOf(1))
            a1 == Cardinality(ApprovedOf(1))
        IN  /\ DirEntry.value.num >= 0 /\ DirEntry.value.den > 0
            /\ a0 = 0 => DirEntry.value.num = 0 /\ ~DirEntry.is_fair
            /\ (a0 > 0 /\ n1 > 0) =>
                   RatEq(DirEntry.value, Rat(a1 * n0 * Scale, n1 * a0))
            /\ DirEntry.threshold = 80000

\* Protected rate 2/3 against privileged rate 1/3: DIR = 2.0, fair.
C13_Witness ==
    /\ pc = "calculate_all_metrics"
    /\ Cardinality(RowsOf(0)) = 3 /\ Cardinality(ApprovedOf(0)) = 1
    /\ Cardinality(RowsOf(1)) = 3 /\ Cardinality(ApprovedOf(1)) = 2
    /\ y_true = y_pred
    /\ RatEq(DirEntry.value, Rat(2 * Scale, 1))
    /\ DirEntry.is_fair

EmptyPrivilegedGroup == pc = "calculate_all_metrics" /\ RowsOf(0) = {}

\* C14 as the spec states it: when no row has protected = 0, some metric
\* reports ERROR while the other four report PASS or FAIL.
C14_EmptyGroupIsError ==
    EmptyPrivilegedGroup =>
        \E m \in MetricIdSet :
            /\ metrics_out.all_metrics[m].status = "ERROR"
            /\ \A o \in MetricIdSet \ {m} :
                   metrics_out.all_metrics[o].status \in {"PASS", "FAIL"}

\* C14: when no row has protected = 0 (the three arrays being of one length)
\* no metric reports ERROR: all five report PASS or FAIL, the empty group's
\* rate is taken as 0 and DIR is 0 and FAIL.
C14_EmptyGroupIsNoError ==
    (EmptyPrivilegedGroup /\ Len(y_true) = Len(y_pred)
                          /\ Len(y_pred) = Len(protected_attribute)) =>
        /\ \A m \in MetricIdSet :
               metrics_out.all_metrics[m].status \in {"PASS", "FAIL"}
        /\ DirEntry.value.num = 0
        /\ DirEntry.privileged_rate.num = 0
        /\ DirEntry.status = "FAIL"

\* Protected rows only, some of them approved
C14_Witness ==
    /\ EmptyPrivilegedGroup
    /\ ApprovedOf(1) /= {}
    /\ DirEntry.status = "FAIL"
    /\ metrics_out.all_metrics["SPD"].status = "FAIL"
    /\ metrics_out.all_metrics["THEIL"].status = "PASS"

\* The protected attribute with the two group labels exchanged
Swapped(pa) == [i \in 1..Len(pa) |-> 1 - pa[i]]
SpdEntry == metrics_out.all_metrics["SPD"]
SpdOfSwapped ==
    StatisticalParityDifference_calculate(y_true, y_pred, Swapped(protected_attribute))

\* C16: exchanging the group labels 0 and 1 of the protected attribute
\* negates the SPD value and leaves absolute_difference and is_fair as they
\* were.
C16_SpdSymmetry ==
    (pc = "calculate_all_metrics" /\ SpdEntry.status /= "ERROR") =>
        /\ ~IsRaised(SpdOfSwapped)
        /\ RatEq(SpdOfSwapped.value, Rat(-SpdEntry.value.num, SpdEntry.value.den))
        /\ RatEq(SpdOfSwapped.absolute_difference, SpdEntry.absolute_difference)
        /\ SpdOfSwapped.is_fair = SpdEntry.is_fair

\* An SPD of -0.1 (protected 2/5, privileged 1/2), fair; it is 0.1 after the
\* exchange.
C16_Witness ==
    /\ pc = "calculate_all_metrics"
    /\ RatEq(SpdEntry.value, Rat(-SPD_THRESHOLD, 1))
    /\ SpdEntry.is_fair
    /\ RatEq(SpdOfSwapped.value, Rat(SPD_THRESHOLD, 1))
    /\ SpdOfSwapped.privileged_rate = SpdEntry.protected_rate

(***************************************************************************)
(* DriftMonitor (fairlens_backend/drift_monitor.py).                       *)
(*                                                                         *)
(* trends is the list get_recent_trends returns: the values of the last    *)
(* window_size rows, oldest first.  The rows' timestamps are carried by no *)
(* computation and are left out, as is the report's analysis_timestamp.    *)
(***************************************************************************)
DRIFT_WINDOW_SIZE == 10

LastN(seq, k) == SubSeq(seq, Max(1, Len(seq) - k + 1), Len(seq))

\* SELECT ... ORDER BY created_at DESC LIMIT window_size, reversed; any
\* exception is logged and [] returned.  Without the handler the exception
\* leaves the call.
get_recent_trends_no_except(table, readable, window_size) ==
    IF readable THEN Returned(LastN(table, window_size)) ELSE Raised("OperationalError")
get_recent_trends(table, readable, window_size) ==
    IF readable THEN Returned(LastN(table, window_size)) ELSE Returned(<<>>)

RECURSIVE SumTo(_, _)
\* f[1] + ... + f[n]
SumTo(f, n) == IF n = 0 THEN 0 ELSE f[n] + SumTo(f, n - 1)

\* np.polyfit(np.arange(n), values, 1)[0]: the least-squares slope
\*   (n*Sxy - Sx*Sy) / (n*Sxx - Sx*Sx),  x = 0 .. n-1
polyfit_slope(values) ==
    LET n == Len(values)
        Sx == SumTo([i \in 1..n |-> i - 1], n)
        Sxx == SumTo([i \in 1..n |-> (i - 1) * (i - 1)], n)
        Sy == SumTo(values, n)
        Sxy == SumTo([i \in 1..n |-> (i - 1) * values[i]], n)
    IN  Rat(n * Sxy - Sx * Sy, n * Sxx - Sx * Sx)

calculate_velocity(trends) ==
    IF Len(trends) < 2 THEN Rat(0, 1) ELSE polyfit_slope(trends)

\* np.diff
Diff(values) == [i \in 1..(Len(values) - 1) |-> values[i + 1] - values[i]]

calculate_acceleration(trends) ==
    IF Len(trends) < 3 THEN Rat(0, 1)
    ELSE LET velocities == Diff(trends)
         IN  IF Len(velocities) < 2 THEN Rat(0, 1)
             ELSE Rat(SumTo(Diff(velocities), Len(velocities) - 1), Len(velocities) - 1)

\* The bootstrap interval is random: each bound is a percentile of 1000
\* means of resamples of the window, so it lies between the window's least
\* and greatest value.  The outcomes kept here are the window's own values
\* (the mean of a resample that drew one row every time), lower <= upper.
ConfidenceIntervals(trends) ==
    IF Len(trends) < 2 THEN {[lower |-> 0, upper |-> 0]}
    ELSE {[lower |-> trends[i], upper |-> trends[j]] :
            <<i, j>> \in {q \in (1..Len(trends)) \X (1..Len(trends)) : trends[q[1]] <= trends[q[2]]}}

\* np.exp(-0.15 * periods_ahead) in ticks, periods_ahead = 1 .. 10
ExpDecayTicks == <<86071, 74082, 63763, 54881, 47237, 40657, 34994, 30119, 25924, 22313>>

\* min(len/20, 1) * exp(-0.15 * k), clamped to [0.1, 1.0]
prediction_confidence(trends, periods_ahead) ==
    IF Len(trends) < 2 THEN Rat(0, 1)
    ELSE LET confidence == IF Len(trends) >= 20 THEN Rat(ExpDecayTicks[periods_ahead], 1)
                           ELSE Rat(Len(trends) * ExpDecayTicks[periods_ahead], 20)
         IN  IF RatLt(confidence, Rat(10000, 1)) THEN Rat(10000, 1)
             ELSE IF RatLt(Rat(Scale, 1), confidence) THEN Rat(Scale, 1)
             ELSE confidence

\* slope * future_x + intercept with intercept = mean(y) - slope * mean(x),
\* mean(x) = (n - 1) / 2
predicted_value(trends, future_x) ==
    LET n == Len(trends)
        slope == polyfit_slope(trends)
    IN  Rat(slope.num * (2 * future_x - (n - 1)) * n + 2 * slope.den * SumTo(trends, n),
            2 * slope.den * n)

\* future_x = len(values) + i
future_x_next_index(n, i) == n - 1 + i
future_x_of(n, i) == n + i

predict_future_drift(trends, horizon) ==
    IF Len(trends) < 3 THEN <<>>
    ELSE [i \in 1..horizon |->
            [ period |-> i,
              predicted_value |-> predicted_value(trends, future_x_of(Len(trends), i)),
              confidence |-> prediction_confidence(trends, i) ]]

\* The report for a list of trends and one outcome ci of the bootstrap.
drift_report_of(metric_name, trends, ci) ==
    IF Len(trends) < 2
    THEN [ status |-> "INSUFFICIENT_DATA",
           message |-> "Not enough historical data for drift analysis",
           trends_count |-> Len(trends) ]
    ELSE LET current_value == trends[Len(trends)]
             velocity == calculate_velocity(trends)
             acceleration == calculate_acceleration(trends)
         IN  [ metric_name |-> metric_name,
               current_value |-> current_value,
               velocity |-> velocity,
               acceleration |-> acceleration,
               confidence_interval |-> [ lower |-> ci.lower, upper |-> ci.upper,
                                         confidence_level |-> 95000 ],
               predictions |-> predict_future_drift(trends, 5),
               risk_assessment |-> calculate_risk_score(velocity, acceleration,
                                                        current_value, DIR_THRESHOLD),
               trend_data |-> trends,
               is_accelerating |-> RatLt(acceleration, Rat(DRIFT_ACCELERATION_THRESHOLD, 1)),
               is_degrading |-> RatLt(velocity, Rat(DRIFT_VELOCITY_THRESHOLD, 1)) ]

(***************************************************************************)
(* generate_drift_report over every table of up to MaxRows rows, readable  *)
(* or not.                                                                 *)
(***************************************************************************)
MaxRows == 4

DriftValues == {75000, 80000, 82000, 90000}

DriftInit ==
    /\ ServiceIdle
    /\ RiskIdle
    /\ MetricsIdle
    /\ TrendIdle
    /\ fairness_trend \in UNION {[1..n -> DriftValues] : n \in 0..MaxRows}
    /\ db_readable \in BOOLEAN
    /\ drift_report = None
    /\ pc = "ready"

\* monitor.generate_drift_report('DIR')
generate_drift_report ==
    /\ pc = "ready"
    /\ LET got == get_recent_trends(fairness_trend, db_readable, DRIFT_WINDOW_SIZE)
       IN  IF IsRaised(got)
           THEN /\ drift_report' = got
                /\ pc' = "raised"
           ELSE /\ \E ci \in ConfidenceIntervals(got.returned) :
                      drift_report' = drift_report_of("DIR", got.returned, ci)
                /\ pc' = "generate_drift_report"
    /\ UNCHANGED <<fairness_trend, db_readable, risk_vars, metrics_vars, trend_vars,
                   service_vars>>

SpecDrift == DriftInit /\ [][generate_drift_report]_vars

DriftDone == pc \in {"generate_drift_report", "raised"}

\* The observations available to the report: the window's rows, none when
\* the table cannot be read.
Available == IF db_readable THEN LastN(fairness_trend, DRIFT_WINDOW_SIZE) ELSE <<>>

\* C2: with fewer than 2 observations available (a failed read included) the
\* report is the tagged result INSUFFICIENT_DATA with trends_count, never an
\* exception; with exactly 2 it carries a velocity, the acceleration is the
\* not-computed value 0 and the forecast is empty; with 3 or more, velocity,
\* acceleration, confidence interval, forecast and risk assessment are all
\* present (non-null), the forecast with its 5 points.
C2_DriftReportGating ==
    DriftDone =>
        /\ pc = "generate_drift_report"
        /\ Len(Available) < 2 =>
              /\ drift_report.status = "INSUFFICIENT_DATA"
              /\ drift_report.trends_count = Len(Available)
              /\ DOMAIN drift_report = {"status", "message", "trends_count"}
        /\ Len(Available) >= 2 =>
              /\ "status" \notin DOMAIN drift_report
              /\ drift_report.velocity /= None
              /\ drift_report.velocity.den > 0
              /\ RatEq(drift_report.velocity, polyfit_slope(Available))
              /\ drift_report.current_value = Available[Len(Available)]
        /\ Len(Available) = 2 =>
              /\ drift_report.acceleration = Rat(0, 1)
              /\ drift_report.predictions = <<>>
        /\ Len(Available) >= 3 =>
              /\ drift_report.acceleration /= None
              /\ drift_report.acceleration.den > 0
              /\ drift_report.confidence_interval /= None
              /\ drift_report.confidence_interval.lower <= drift_report.confidence_interval.upper
              /\ Len(drift_report.predictions) = 5
              /\ \A k \in 1..5 : drift_report.predictions[k].predicted_value /= None
              /\ drift_report.risk_assessment /= None
              /\ drift_report.risk_assessment.risk_level \in {"LOW", "MEDIUM", "HIGH"}

\* A report on exactly 2 observations with a falling velocity, and no
\* exception after a failed read.
C2_Witness ==
    /\ pc = "generate_drift_report"
    /\ db_readable
    /\ Len(fairness_trend) = 2
    /\ drift_report.velocity.num < 0
    /\ drift_report.acceleration = Rat(0, 1)
    /\ drift_report.predictions = <<>>

\* The least-squares line through (0, y1) .. (n-1, yn) at x, from the
\* centred sums: slope = Sum (x - mx)(y - my) / Sum (x - mx)^2 and
\* intercept = my - slope * mx, with the x taken doubled to stay whole.
MaxHorizon == 7
Centred(n, i) == 2 * (i - 1) - (n - 1)
LeastSquaresAt(values, x) ==
    LET n == Len(values)
        Sy == SumTo(values, n)
        Sxx == SumTo([i \in 1..n |-> Centred(n, i) * Centred(n, i)], n)
        Sxy == SumTo([i \in 1..n |-> Centred(n, i) * (n * values[i] - Sy)], n)
    IN  Rat(Sy * Sxx + Sxy * (2 * x - (n - 1)), n * Sxx)

\* C17: with n >= 3 observations predict_future_drift returns exactly
\* `horizon` points with period 1..horizon in ascending order, each
\* predicted_value the least-squares line at n + k; with fewer than 3 it
\* returns the empty list.
C17_ForecastByExtrapolation ==
    pc = "generate_drift_report" =>
        \A horizon \in 0..MaxHorizon :
            LET n == Len(Available)
                predictions == predict_future_drift(Available, horizon)
            IN  /\ (Len(predictions) = 5 /\ horizon = 5 /\ n >= 2)
                       => drift_report.predictions = predictions
                /\ IF n >= 3
                   THEN /\ Len(predictions) = horizon
                        /\ \A k \in 1..horizon :
                               /\ predictions[k].period = k
                               /\ RatEq(predictions[k].predicted_value,
                                        LeastSquaresAt(Available, n + k))
                   ELSE predictions = <<>>

\* A report on 3 falling observations: 5 forecast points, the fifth below
\* the latest observation.
C17_Witness ==
    /\ pc = "generate_drift_report"
    /\ Len(Available) = 3
    /\ Available[1] > Available[2] /\ Available[2] > Available[3]
    /\ Len(drift_report.predictions) = 5
    /\ drift_report.predictions[5].period = 5
    /\ RatLt(drift_report.predictions[5].predicted_value, Rat(Available[3], 1))

(***************************************************************************)
(* Inputs of the risk-score checks, in ticks.                              *)
(***************************************************************************)
RiskVelocities == {-20000, -10000, -5000, -1001, -1000, 0, 1000}
RiskAccelerations == {-5000, -3000, -501, -500, 0, 500}
RiskCurrents == {60000, 79999, 80000, 90000, 100000, 120000}
RiskThresholds == {75000, 80000}

RiskInit ==
    /\ ServiceIdle
    /\ MetricsIdle
    /\ DriftIdle
    /\ TrendIdle
    /\ risk_args \in [ velocity : RiskVelocities, acceleration : RiskAccelerations,
                       current_value : RiskCurrents, threshold : RiskThresholds ]
    /\ risk_assessment = None
    /\ pc = "ready"

RiskCall ==
    /\ pc = "ready"
    /\ pc' = "calculate_risk_score"
    /\ risk_assessment' = calculate_risk_score(Rat(risk_args.velocity, 1),
                                               Rat(risk_args.acceleration, 1),
                                               risk_args.current_value,
                                               risk_args.threshold)
    /\ UNCHANGED <<risk_args, metrics_vars, drift_vars, trend_vars,
                   service_vars>>

SpecRisk == RiskInit /\ [][RiskCall]_vars

(***************************************************************************)
(* Claims about calculate_risk_score, checked under SpecRisk.              *)
(***************************************************************************)
RiskDone == pc = "calculate_risk_score"

\* The score the specification's formula gives: every term clamped to
\* [0, 1] before it is weighted, the sum clamped to [0, 1].
ClaimedRiskScore(velocity, acceleration, current_value, threshold) ==
    LET den == RiskDen(velocity, acceleration)
    IN  Rat(clamp_risk(
              proximity_term_clamped(current_value - threshold)
                  * velocity.den * acceleration.den
              + velocity_term(velocity_risk(velocity)) * acceleration.den
              + acceleration_term(acceleration_risk(acceleration)) * velocity.den,
              den), den)

\* C3: risk_score is the clamp to [0,1] of 0.4*P + 0.35*V + 0.25*A with P, V
\* and A each clamped to [0,1] before weighting, and 0 <= risk_score <= 1.
C3_RiskScoreFormula ==
    RiskDone =>
        /\ RatEq(risk_assessment.risk_score,
                 ClaimedRiskScore(Rat(risk_args.velocity, 1), Rat(risk_args.acceleration, 1),
                                  risk_args.current_value, risk_args.threshold))
        /\ 0 <= risk_assessment.risk_score.num
        /\ risk_assessment.risk_score.num <= risk_assessment.risk_score.den

\* C4: risk_level is HIGH iff risk_score >= 0.7, MEDIUM iff 0.4 <= risk_score
\* < 0.7, LOW iff risk_score < 0.4.
C4_RiskLevelThresholds ==
    RiskDone =>
        LET s == risk_assessment.risk_score
            ge07 == 10 * s.num >= 7 * s.den
            ge04 == 10 * s.num >= 4 * s.den
        IN  /\ (risk_assessment.risk_level = "HIGH") <=> ge07
            /\ (risk_assessment.risk_level = "MEDIUM") <=> (ge04 /\ ~ge07)
            /\ (risk_assessment.risk_level = "LOW") <=> ~ge04

\* A score of exactly 0.7 reported HIGH (the inclusive boundary).
C4_Witness ==
    /\ RiskDone
    /\ 10 * risk_assessment.risk_score.num = 7 * risk_assessment.risk_score.den
    /\ risk_assessment.risk_level = "HIGH"

\* C5: with acceleration, current_value and threshold fixed, v1 <= v2 implies
\* risk_score(v1) >= risk_score(v2).
C5_RiskMonotoneInVelocity ==
    RiskDone =>
        \A v2 \in RiskVelocities :
            LET other == calculate_risk_score(Rat(v2, 1), Rat(risk_args.acceleration, 1),
                                              risk_args.current_value, risk_args.threshold)
            IN  /\ risk_args.velocity <= v2
                    => RatLe(other.risk_score, risk_assessment.risk_score)
                /\ v2 <= risk_args.velocity
                    => RatLe(risk_assessment.risk_score, other.risk_score)

\* A negative velocity whose score is strictly above that of a positive one.
C5_Witness ==
    /\ RiskDone
    /\ risk_args.velocity = -5000
    /\ RatLt(calculate_risk_score(Rat(1000, 1), Rat(risk_args.acceleration, 1),
                                  risk_args.current_value, risk_args.threshold).risk_score,
             risk_assessment.risk_score)

\* C6: needs_retraining is true exactly when velocity < -0.01 or
\* acceleration < -0.005 or current_value < threshold.
C6_NeedsRetraining ==
    RiskDone =>
        (risk_assessment.needs_retraining
            <=> \/ risk_args.velocity < -1000
                \/ risk_args.acceleration < -500
                \/ risk_args.current_value < risk_args.threshold)

\* All three inputs exactly at their thresholds: no retraining.
C6_Witness ==
    /\ RiskDone
    /\ risk_args.velocity = -1000
    /\ risk_args.acceleration = -500
    /\ risk_args.current_value = risk_args.threshold
    /\ ~risk_assessment.needs_retraining

\* C30: whenever current_value < threshold, risk_score >= 0.4, so the
\* risk_level is MEDIUM or HIGH and never LOW, and needs_retraining is true
\* (the recommendation is then one of the two retraining texts), whatever the
\* velocity and the acceleration.
C30_BelowThresholdAtLeastMedium ==
    (RiskDone /\ risk_args.current_value < risk_args.threshold) =>
        /\ 10 * risk_assessment.risk_score.num >= 4 * risk_assessment.risk_score.den
        /\ risk_assessment.risk_level \in {"MEDIUM", "HIGH"}
        /\ risk_assessment.needs_retraining
        /\ risk_assessment.recommendation
               \in {"CRITICAL: Immediate model retraining required",
                    "WARNING: Model retraining recommended within 48 hours"}

\* A value far below the threshold with rising velocity and acceleration:
\* the score is exactly 0.4 and the level MEDIUM.
C30_Witness ==
    /\ RiskDone
    /\ risk_args.current_value = 60000
    /\ risk_args.threshold = 80000
    /\ risk_args.velocity > 0
    /\ risk_args.acceleration > 0
    /\ 10 * risk_assessment.risk_score.num = 4 * risk_assessment.risk_score.den
    /\ risk_assessment.risk_level = "MEDIUM"
    /\ risk_assessment.needs_retraining


(***************************************************************************)
(* db_manager.py: the fairness_trends table.  A row keeps the columns the  *)
(* trend analysis reads (id, timestamp, model_name, dir_value,             *)
(* alert_status); the other columns are stored and returned verbatim and   *)
(* no analysis reads them.                                                 *)
(***************************************************************************)
MaxRecords == 5
ModelNames == {"loan_approval_v1"}
DirValues == {70000, 79996, 80000, 85000, 100000}

\* model_name = None of the Python callers; `if model_name:` treats None and
\* the empty string alike.
NoModel == ""

\* store_fairness_check made by one caller at a time: INSERT one row stamped
\* datetime.now(); the id is the autoincrement key.  Time has moved on when
\* the next call reads the clock.
stored(table, now, model_name, dir_value, alert_status) ==
    Append(table,
           [id |-> Len(table) + 1,
            timestamp |-> now,
            model_name |-> model_name,
            dir_value |-> dir_value,
            alert_status |-> alert_status])

store_fairness_check(model_name, dir_value, alert_status) ==
    /\ pc = "ready"
    /\ Len(records) < MaxRecords
    /\ records' = stored(records, clock, model_name, dir_value, alert_status)
    /\ clock' = clock + 1
    /\ UNCHANGED <<pc, in_flight, analysis, risk_vars, metrics_vars, drift_vars,
                   service_vars>>

RemoveAt(seq, i) == SubSeq(seq, 1, i - 1) \o SubSeq(seq, i + 1, Len(seq))

\* ORDER BY timestamp DESC
RECURSIVE OrderByTimestampDesc(_)
OrderByTimestampDesc(rows) ==
    IF rows = <<>> THEN <<>>
    ELSE LET i == CHOOSE i \in 1..Len(rows) :
                      \A j \in 1..Len(rows) : rows[j].timestamp <= rows[i].timestamp
         IN  <<rows[i]>> \o OrderByTimestampDesc(RemoveAt(rows, i))

\* get_recent_checks: the newest `limit` rows, newest first, of one model
\* when a model name is given.
get_recent_checks_by_id(table, limit, model_name) ==
    LET query == IF model_name /= NoModel
                 THEN SelectSeq(table, LAMBDA r : r.model_name = model_name)
                 ELSE table
        ordered == [i \in 1..Len(query) |-> query[Len(query) + 1 - i]]
    IN  SubSeq(ordered, 1, Min(limit, Len(ordered)))
get_recent_checks(table, limit, model_name) ==
    LET query == IF model_name /= NoModel
                 THEN SelectSeq(table, LAMBDA r : r.model_name = model_name)
                 ELSE table
        ordered == OrderByTimestampDesc(query)
    IN  SubSeq(ordered, 1, Min(limit, Len(ordered)))

(***************************************************************************)
(* trend_analyzer.py                                                       *)
(***************************************************************************)
Reversed(seq) == [i \in 1..Len(seq) |-> seq[Len(seq) + 1 - i]]

\* The DIR values of the rows a query returns, oldest first
chronological(recs) == [i \in 1..Len(recs) |-> Reversed(recs)[i].dir_value]

\* round(x, ndigits) of a fraction of ticks, to a whole multiple of `unit`
\* ticks: the nearest one, the even one when x is exactly half way.
RoundTo(x, unit) ==
    LET d == x.den * unit
        q == x.num \div d
        r == x.num - q * d
    IN  IF 2 * r > d THEN (q + 1) * unit
        ELSE IF 2 * r < d THEN q * unit
        ELSE IF q % 2 = 0 THEN q * unit ELSE (q + 1) * unit
Round4(x) == RoundTo(x, 10)
Round5(x) == RoundTo(x, 1)

\* statistics.mean
Mean(values) == Rat(SumTo(values, Len(values)), Len(values))

RECURSIVE Sorted(_)
Sorted(values) ==
    IF values = <<>> THEN <<>>
    ELSE LET i == CHOOSE i \in 1..Len(values) :
                      \A j \in 1..Len(values) : values[i] <= values[j]
         IN  <<values[i]>> \o Sorted(RemoveAt(values, i))

\* statistics.median: the middle value, or the mean of the two middle ones
Median(values) ==
    LET s == Sorted(values)
        n == Len(values)
    IN  IF n % 2 = 1 THEN Rat(s[(n + 1) \div 2], 1)
        ELSE Rat(s[n \div 2] + s[n \div 2 + 1], 2)

SeqMin(values) == CHOOSE v \in {values[i] : i \in 1..Len(values)} :
                      \A i \in 1..Len(values) : v <= values[i]
SeqMax(values) == CHOOSE v \in {values[i] : i \in 1..Len(values)} :
                      \A i \in 1..Len(values) : v >= values[i]

\* second_half_avg - first_half_avg, the halves split at len // 2
half_difference(dir_values) ==
    LET mid_point == Len(dir_values) \div 2
        first_half_avg == Mean(SubSeq(dir_values, 1, mid_point))
        second_half_avg == Mean(SubSeq(dir_values, mid_point + 1, Len(dir_values)))
    IN  RatSub(second_half_avg, first_half_avg)

\* The sign of the rounding error a double computation carries: the computed
\* value lies below (-1), on (0) or above (1) the exact one.  The doubles of
\* 0.9, 0.85 and 0.05 are not the decimals, so 0.85 - 0.9 computes to
\* -0.050000000000000044 and 0.8 - 0.85 to -0.04999999999999993.
FloatErr == {-1, 0, 1}

\* x < y over doubles, x computed with error err and y a literal
FloatLt(x, y, err) == RatLt(x, y) \/ (RatEq(x, y) /\ err < 0)
FloatGt(x, y, err) == RatLt(y, x) \/ (RatEq(x, y) /\ err > 0)

\* trend_direction: "stable" unless there are 4 points and the halves differ
\* by more than 0.05
trend_direction_of(dir_values, err) ==
    IF Len(dir_values) >= 4
    THEN LET difference == half_difference(dir_values)
         IN  IF FloatLt(difference, Rat(-5000, 1), err) THEN "down"
             ELSE IF FloatGt(difference, Rat(5000, 1), err) THEN "up"
             ELSE "stable"
    ELSE "stable"

get_recent_trend(table, window, model_name, err) ==
    LET recs == get_recent_checks(table, window, model_name)
    IN  IF recs = <<>>
        THEN [average_dir |-> None, median_dir |-> None,
              min_dir |-> None, max_dir |-> None,
              trend_direction |-> "unknown",
              alert_count |-> 0,
              data_points |-> 0,
              message |-> "No data available for trend analysis"]
        ELSE LET dir_values == chronological(recs)
             IN  [average_dir |-> Round4(Mean(dir_values)),
                  median_dir |-> Round4(Median(dir_values)),
                  min_dir |-> Round4(Rat(SeqMin(dir_values), 1)),
                  max_dir |-> Round4(Rat(SeqMax(dir_values), 1)),
                  trend_direction |-> trend_direction_of(dir_values, err),
                  alert_count |-> Cardinality({i \in 1..Len(recs) : recs[i].alert_status}),
                  data_points |-> Len(dir_values),
                  dir_values |-> [i \in 1..Len(dir_values) |->
                                      Round4(Rat(dir_values[i], 1))]]

\* The severity of a declining window whose average is not below the
\* threshold: avg_dir < threshold + 0.1
down_severity_inclusive(avg_dir, threshold) ==
    IF avg_dir <= threshold + 10000 THEN "medium" ELSE "low"
down_severity(avg_dir, threshold) ==
    IF avg_dir < threshold + 10000 THEN "medium" ELSE "low"

\* check_pre_alert; the message strings are left out.
check_pre_alert(table, threshold, window, model_name, err) ==
    LET trend_data == get_recent_trend(table, window, model_name, err)
    IN  IF trend_data.data_points = 0
        THEN [pre_alert |-> FALSE, current_avg |-> None, trend |-> "unknown",
              severity |-> "none"]
        ELSE LET avg_dir == trend_data.average_dir
                 trend == trend_data.trend_direction
             IN  IF avg_dir < threshold
                 THEN [pre_alert |-> TRUE, current_avg |-> avg_dir, trend |-> trend,
                       severity |-> "high",
                       recommendation |->
                           "Immediate model review required. Fairness threshold violated."]
                 ELSE IF trend = "down"
                 THEN [pre_alert |-> TRUE, current_avg |-> avg_dir, trend |-> trend,
                       severity |-> down_severity(avg_dir, threshold),
                       recommendation |->
                           IF down_severity(avg_dir, threshold) = "medium"
                           THEN "Monitor closely. Consider model retraining if trend continues."
                           ELSE "Continue monitoring. Investigate data quality and model inputs."]
                 ELSE [pre_alert |-> FALSE, current_avg |-> avg_dir, trend |-> trend,
                       severity |-> "none",
                       recommendation |-> "Continue regular monitoring."]

\* int(x) of a computed quotient that is not negative: a quotient that is
\* exactly whole truncates to the whole below when it was computed short of
\* it ((0.85 - 0.8) / 0.05 computes to 0.9999999999999987).
IntPart(x, err) ==
    IF x.num % x.den = 0 /\ x.num > 0 /\ err < 0 THEN x.num \div x.den - 1
    ELSE x.num \div x.den

\* velocity < 0 and dir_values[-1] > 0.8: when an estimate is made at all.
\* The 0.8 is written in the code.
estimate_made(dir_values) ==
    /\ Len(dir_values) >= 3
    /\ dir_values[Len(dir_values)] - dir_values[1] < 0
    /\ dir_values[Len(dir_values)] > 80000

\* if len(records) < 3: insufficient data
too_few_for_velocity_two(recs) == Len(recs) < 2
too_few_for_velocity(recs) == Len(recs) < 3

\* calculate_drift_velocity
calculate_drift_velocity(table, window, model_name, err) ==
    LET recs == get_recent_checks(table, window, model_name)
    IN  IF too_few_for_velocity(recs)
        THEN [velocity |-> None, estimated_checks_to_threshold |-> None,
              is_accelerating |-> FALSE]
        ELSE LET dir_values == chronological(recs)
                 n == Len(dir_values)
                 last == dir_values[n]
                 total_change == last - dir_values[1]
                 velocity == Rat(total_change, n - 1)
                 half == n \div 2
                 first_half_velocity == Rat(dir_values[half + 1] - dir_values[1], half)
                 second_half_velocity == Rat(last - dir_values[half + 1], n - half)
             IN  [velocity |-> Round5(velocity),
                  estimated_checks_to_threshold |->
                      IF estimate_made(dir_values)
                      THEN IntPart(Rat((last - 80000) * (n - 1), Abs(total_change)), err)
                      ELSE None,
                  is_accelerating |->
                      IF n >= 6 THEN RatLt(second_half_velocity, first_half_velocity)
                      ELSE FALSE,
                  current_dir |-> Round4(Rat(last, 1))]

(***************************************************************************)
(* fairness_trend.py                                                       *)
(***************************************************************************)

\* threshold + 0.05 over doubles: 0.8 + 0.05 computes to 0.8500000000000001,
\* above the decimal, and 0.75 + 0.05 to 0.8 itself.
margin_err(threshold) == IF threshold = 80000 THEN 1 ELSE 0

\* current_dir < threshold + 0.05, current_dir being a rounded average
below_margin(current_dir, threshold) ==
    \/ current_dir < threshold + 5000
    \/ current_dir = threshold + 5000 /\ margin_err(threshold) > 0

\* The prediction, confidence and severity of the if/elif chain.  An
\* estimate of 0 checks is falsy in `estimated_checks and ...`.
drift_prediction(current_dir, threshold, trend, is_accelerating, has_estimate, estimated_checks) ==
    IF current_dir < threshold
    THEN [prediction |-> "critical", confidence |-> 100000, severity |-> "high"]
    ELSE IF below_margin(current_dir, threshold)
    THEN [prediction |-> "critical", confidence |-> 90000, severity |-> "high"]
    ELSE IF trend = "down"
    THEN IF is_accelerating
         THEN [prediction |-> "warning", confidence |-> 85000, severity |-> "medium"]
         ELSE IF has_estimate /\ estimated_checks /= 0 /\ estimated_checks <= 5
         THEN [prediction |-> "warning", confidence |-> 80000, severity |-> "medium"]
         ELSE IF has_estimate /\ estimated_checks /= 0 /\ estimated_checks <= 10
         THEN [prediction |-> "warning", confidence |-> 70000, severity |-> "low"]
         ELSE [prediction |-> "caution", confidence |-> 60000, severity |-> "low"]
    ELSE IF trend \in {"stable", "up"}
    THEN [prediction |-> "safe", confidence |-> 80000, severity |-> "none"]
    ELSE [prediction |-> "safe", confidence |-> 50000, severity |-> "none"]

\* predict_fairness_drift from line 57 on: what it makes of the answers of
\* its two analyses.  has_estimate tells whether velocity_data's
\* estimated_checks_to_threshold is a number or None.  The message and
\* recommendation strings and the details record, which repeats the fields
\* below, are left out.
prediction_of(trend_data, velocity_data, has_estimate, threshold) ==
        IF trend_data.data_points < 3
        THEN [prediction |-> "unknown", confidence |-> 0]
        ELSE LET current_dir == trend_data.average_dir
                 trend == trend_data.trend_direction
                 velocity == velocity_data.velocity
                 estimated_checks == velocity_data.estimated_checks_to_threshold
                 is_accelerating == velocity_data.is_accelerating
                 chosen == drift_prediction(current_dir, threshold, trend,
                                            is_accelerating, has_estimate,
                                            estimated_checks)
             IN  [prediction |-> chosen.prediction,
                  confidence |-> chosen.confidence,
                  severity |-> chosen.severity,
                  estimated_checks_to_threshold |-> estimated_checks,
                  current_dir |-> Round4(Rat(current_dir, 1)),
                  trend |-> trend,
                  velocity |-> IF velocity /= 0 THEN Round5(Rat(velocity, 1)) ELSE None,
                  is_accelerating |-> is_accelerating]

\* predict_fairness_drift when nothing is stored between its two reads;
\* err_t and err_v are the rounding errors of the two analyses it calls.
predict_fairness_drift(table, window, model_name, threshold, err_t, err_v) ==
    prediction_of(get_recent_trend(table, window, model_name, err_t),
                  calculate_drift_velocity(table, window, model_name, err_v),
                  estimate_made(chronological(
                      get_recent_checks(table, window, model_name))),
                  threshold)

(***************************************************************************)
(* The store and its analysis: checks are stored one after another, and an *)
(* analysis call reads the table as it then is.                            *)
(***************************************************************************)
TrendQueries ==
    {[window |-> 10, model_name |-> NoModel],
     [window |-> 4, model_name |-> "loan_approval_v1"]}
TrendThresholds == {DIR_THRESHOLD}

TrendInit ==
    /\ ServiceIdle
    /\ RiskIdle
    /\ MetricsIdle
    /\ DriftIdle
    /\ TrendIdle
    /\ pc = "ready"

\* app.py stores a check with alert_status = (DIR < 0.8)
StoreCall ==
    \E m \in ModelNames, d \in DirValues :
        store_fairness_check(m, d, d < DIR_THRESHOLD)

Answer(call, threshold, q, result) ==
    /\ pc = "ready"
    /\ pc' = call
    /\ analysis' = [call |-> call, threshold |-> threshold, window |-> q.window,
                    model_name |-> q.model_name, result |-> result]
    /\ UNCHANGED <<store_vars, risk_vars, metrics_vars, drift_vars,
                   service_vars>>

TrendCall ==
    \E q \in TrendQueries, err \in FloatErr :
        Answer("get_recent_trend", DIR_THRESHOLD, q,
               get_recent_trend(records, q.window, q.model_name, err))

PreAlertCall ==
    \E q \in TrendQueries, threshold \in TrendThresholds, err \in FloatErr :
        Answer("check_pre_alert", threshold, q,
               check_pre_alert(records, threshold, q.window, q.model_name, err))

VelocityCall ==
    \E q \in TrendQueries, err \in FloatErr :
        Answer("calculate_drift_velocity", DIR_THRESHOLD, q,
               calculate_drift_velocity(records, q.window, q.model_name, err))

TrendNext == StoreCall \/ TrendCall \/ PreAlertCall \/ VelocityCall

SpecTrend == TrendInit /\ [][TrendNext]_vars

\* The window an answered call looked at, oldest first: the last `window`
\* stored DIR values of the model asked for.
Analysed ==
    LET rows == IF analysis.model_name = NoModel THEN records
                ELSE SelectSeq(records, LAMBDA r : r.model_name = analysis.model_name)
        vals == [i \in 1..Len(rows) |-> rows[i].dir_value]
    IN  LastN(vals, analysis.window)
PreAlertDone == pc = "check_pre_alert" /\ Analysed /= <<>>
TrendDone == pc = "get_recent_trend" /\ Analysed /= <<>>


\* What the answered call reported
Result == analysis.result
AnalysedMean == Mean(Analysed)
AverageBelowThreshold == RatLt(AnalysedMean, Rat(analysis.threshold, 1))

\* C7: whenever the window check_pre_alert looked at is non-empty and its
\* average DIR is below the threshold, the call returns pre_alert = true with
\* severity high, whatever the trend direction.
C7_BelowThresholdIsHigh ==
    (PreAlertDone /\ AverageBelowThreshold)
        => (Result.pre_alert /\ Result.severity = "high")

\* The checks-to-threshold estimate and the acceleration flag that
\* calculate_drift_velocity gives for the window of the answered call, and
\* the severity the accelerating / checks-to-threshold ladder makes of them.
HasEstimate ==
    /\ Len(Analysed) >= 3
    /\ Analysed[Len(Analysed)] < Analysed[1]
    /\ Analysed[Len(Analysed)] > 80000
LadderSeverity(v) ==
    IF v.is_accelerating THEN "medium"
    ELSE IF HasEstimate /\ v.estimated_checks_to_threshold <= 5 THEN "medium"
    ELSE "low"
DecliningAboveThreshold ==
    /\ PreAlertDone
    /\ ~AverageBelowThreshold
    /\ Result.trend = "down"

\* C8 as the spec states it: with the average DIR at or above the threshold
\* and the trend down, the severity is MEDIUM if the decline is accelerating,
\* otherwise MEDIUM if the estimated checks-to-threshold is at most 5,
\* otherwise LOW.
C8_DownLadderByAcceleration ==
    DecliningAboveThreshold
        => \E err \in FloatErr :
               Result.severity =
                   LadderSeverity(calculate_drift_velocity(records, analysis.window,
                                                           analysis.model_name, err))

\* C8: with the average DIR at or above the threshold and the trend down,
\* check_pre_alert returns pre_alert = true, with severity MEDIUM if the
\* average rounded to 4 decimals is below threshold + 0.1 and LOW otherwise.
C8_DownLadderByDistance ==
    DecliningAboveThreshold
        => /\ Result.pre_alert
           /\ Result.severity =
                  IF Round4(AnalysedMean) < analysis.threshold + 10000
                  THEN "medium" ELSE "low"

\* A declining window whose rounded average is exactly threshold + 0.1 is LOW,
\* although its estimated checks-to-threshold is at most 5.
C8_Witness ==
    /\ DecliningAboveThreshold
    /\ Round4(AnalysedMean) = analysis.threshold + 10000
    /\ Result.severity = "low"
    /\ Result.pre_alert
    /\ HasEstimate
    /\ calculate_drift_velocity(records, analysis.window, analysis.model_name, 0)
           .estimated_checks_to_threshold <= 5

\* C9: for a non-empty window check_pre_alert returns pre_alert = false with
\* severity none exactly when the average DIR is at or above the threshold
\* and the trend is stable or up; every window whose trend is down yields
\* pre_alert = true.
C9_NoAlertExactlyWhenSafe ==
    PreAlertDone
        => /\ (~Result.pre_alert /\ Result.severity = "none")
                  <=> (~AverageBelowThreshold /\ Result.trend \in {"stable", "up"})
           /\ Result.trend = "down" => Result.pre_alert

\* The first floor(n/2) values of the window against the rest: the mean of
\* the second half minus the mean of the first.
HalvesDifference ==
    LET n == Len(Analysed)
        first == SubSeq(Analysed, 1, n \div 2)
        second == SubSeq(Analysed, n \div 2 + 1, n)
    IN  RatSub(Rat(SumTo(second, Len(second)), Len(second)),
               Rat(SumTo(first, Len(first)), Len(first)))

\* C10: with at least 4 points trend_direction is down iff mean(second half)
\* - mean(first half) < -0.05, up iff that difference > 0.05 and stable
\* otherwise (a difference of exactly 0.05 either way is stable), the first
\* half being the first floor(n/2) values; with 1 to 3 points it is stable.
C10_TrendDirection ==
    TrendDone
        => Result.trend_direction =
               IF Len(Analysed) >= 4 /\ RatLt(HalvesDifference, Rat(-5000, 1))
               THEN "down"
               ELSE IF Len(Analysed) >= 4 /\ RatLt(Rat(5000, 1), HalvesDifference)
               THEN "up"
               ELSE "stable"


(***************************************************************************)
(* predict_fairness_drift over a stored history.  The table starts as some *)
(* run of store_fairness_check calls for one model left it: ids 1..n, the  *)
(* timestamps in the order of the calls.                                   *)
(***************************************************************************)
MaxHistory == 6
PredictValues == {70000, 90000, 100000}
PredictThresholds == {75000, DIR_THRESHOLD}

HistoryOf(values) ==
    [i \in 1..Len(values) |->
        [id |-> i, timestamp |-> i - 1, model_name |-> "loan_approval_v1",
         dir_value |-> values[i], alert_status |-> values[i] < DIR_THRESHOLD]]

PredictInit ==
    /\ ServiceIdle
    /\ RiskIdle
    /\ MetricsIdle
    /\ DriftIdle
    /\ pc = "ready"
    /\ analysis = None
    /\ \E n \in 0..MaxHistory :
           \E values \in [1..n -> PredictValues] :
               /\ records = HistoryOf(values)
               /\ clock = n
    /\ in_flight = NoWrite

PredictCall ==
    \E q \in TrendQueries, threshold \in PredictThresholds,
       err_t \in FloatErr, err_v \in FloatErr :
        Answer("predict_fairness_drift", threshold, q,
               predict_fairness_drift(records, q.window, q.model_name, threshold,
                                      err_t, err_v))

SpecPredict == PredictInit /\ [][PredictCall]_vars

PredictDone == pc = "predict_fairness_drift"
Latest == Analysed[Len(Analysed)]

\* floor((current - threshold) / |velocity|), velocity = (last - first)/(n - 1)
ClaimedEstimate ==
    ((Latest - analysis.threshold) * (Len(Analysed) - 1))
        \div Abs(Latest - Analysed[1])
ClaimedEstimateMade ==
    /\ Len(Analysed) >= 2
    /\ Latest < Analysed[1]
    /\ Latest > analysis.threshold

\* C11: the estimated_checks_to_threshold predict_fairness_drift reports is
\* floor((current - threshold) / |velocity|) when velocity < 0 and current >
\* threshold, and null otherwise; current is the latest DIR of the window,
\* velocity the two-point slope and threshold the threshold of the call.
C11_EstimateUsesPassedThreshold ==
    (PredictDone /\ Len(Analysed) >= 3)
        => IF ClaimedEstimateMade
           THEN /\ estimate_made(Analysed)
                /\ Result.estimated_checks_to_threshold = ClaimedEstimate
           ELSE ~estimate_made(Analysed)

(***************************************************************************)
(* predict_fairness_drift on histories whose latest value lies just above  *)
(* 0.8 or well above it, so that the estimate of checks to the threshold   *)
(* comes out 0, small, between 6 and 10, and above 10.                     *)
(***************************************************************************)
MaxLadder == 4
LadderValues == {81000, 90000, 95000, 100000}

LadderInit ==
    /\ ServiceIdle
    /\ RiskIdle
    /\ MetricsIdle
    /\ DriftIdle
    /\ pc = "ready"
    /\ analysis = None
    /\ \E n \in 0..MaxLadder :
           \E values \in [1..n -> LadderValues] :
               /\ records = HistoryOf(values)
               /\ clock = n
    /\ in_flight = NoWrite

SpecLadder == LadderInit /\ [][PredictCall]_vars

\* the average DIR of the window is at least threshold + 0.05
AverageAboveBand == RatLe(Rat(analysis.threshold + 5000, 1), AnalysedMean)
Classified(prediction, severity) ==
    Result.prediction = prediction /\ Result.severity = severity

\* C26: with at least 3 points, average DIR >= threshold + 0.05 and trend
\* down, the prediction is warning/medium if the decline is accelerating,
\* otherwise warning/medium if the estimated checks-to-threshold is <= 5 (0
\* included), otherwise warning/low if it is <= 10, and caution/low only when
\* the estimate is null or above 10; with the average below threshold + 0.05
\* it is critical, and with a stable or up trend above that band it is safe.
C26_PredictionLadder ==
    (PredictDone /\ Len(Analysed) >= 3) =>
        /\ ~AverageAboveBand => Result.prediction = "critical"
        /\ (AverageAboveBand /\ Result.trend \in {"stable", "up"})
               => Result.prediction = "safe"
        /\ (AverageAboveBand /\ Result.trend = "down")
               => IF Result.is_accelerating
                  THEN Classified("warning", "medium")
                  ELSE IF HasEstimate /\ Result.estimated_checks_to_threshold <= 5
                  THEN Classified("warning", "medium")
                  ELSE IF HasEstimate /\ Result.estimated_checks_to_threshold <= 10
                  THEN Classified("warning", "low")
                  ELSE Classified("caution", "low")


(***************************************************************************)
(* The analyses on a short history: none, one, two stored checks, and a    *)
(* few more for contrast.                                                  *)
(***************************************************************************)
MaxSparse == 3

SparseInit ==
    /\ ServiceIdle
    /\ RiskIdle
    /\ MetricsIdle
    /\ DriftIdle
    /\ pc = "ready"
    /\ analysis = None
    /\ \E n \in 0..MaxSparse :
           \E values \in [1..n -> DirValues] :
               /\ records = HistoryOf(values)
               /\ clock = n
    /\ in_flight = NoWrite

SparseNext == TrendCall \/ PreAlertCall \/ VelocityCall \/ PredictCall

SpecSparse == SparseInit /\ [][SparseNext]_vars

\* C18: insufficient data is a tagged result.  With no stored observation
\* get_recent_trend returns data_points 0 with trend_direction unknown and
\* check_pre_alert returns pre_alert false with severity none; with fewer
\* than 3 observations calculate_drift_velocity returns velocity null and
\* predict_fairness_drift returns prediction unknown with confidence 0.
C18_InsufficientDataIsTagged ==
    /\ (pc = "get_recent_trend" /\ Analysed = <<>>) =>
           /\ Result.data_points = 0
           /\ Result.trend_direction = "unknown"
           /\ Result.average_dir = None
    /\ (pc = "check_pre_alert" /\ Analysed = <<>>) =>
           /\ ~Result.pre_alert
           /\ Result.severity = "none"
    /\ (pc = "calculate_drift_velocity" /\ Len(Analysed) < 3) =>
           Result = [velocity |-> None, estimated_checks_to_threshold |-> None,
                     is_accelerating |-> FALSE]
    /\ (pc = "predict_fairness_drift" /\ Len(Analysed) < 3) =>
           Result = [prediction |-> "unknown", confidence |-> 0]
    /\ pc \in {"ready", "get_recent_trend", "check_pre_alert",
               "calculate_drift_velocity", "predict_fairness_drift"}

\* Two stored checks: no velocity
C18_Witness ==
    /\ pc = "calculate_drift_velocity"
    /\ Len(Analysed) = 2
    /\ Analysed[2] < Analysed[1]
    /\ "current_dir" \notin DOMAIN Result


(***************************************************************************)
(* The history under concurrent requests.  app.run serves every request   *)
(* on a thread of its own, and db_manager takes no lock: each thread runs  *)
(* store_fairness_check in two steps, building the row (which reads        *)
(* datetime.now()) and committing it (the INSERT that assigns the id),     *)
(* and other threads run between the two.  Readers run at any time.        *)
(***************************************************************************)
MaxLedger == 3
LedgerModels == {"loan_approval_v1", "unknown_model"}
LedgerValues == {79996}

\* record = FairnessTrend(timestamp=datetime.now().isoformat(), ...)
store_begin(w, model_name, dir_value, alert_status) ==
    /\ in_flight[w] = None
    /\ clock < MaxLedger
    /\ in_flight' = [in_flight EXCEPT ![w] =
                        [timestamp |-> clock,
                         model_name |-> model_name,
                         dir_value |-> dir_value,
                         alert_status |-> alert_status]]
    /\ clock' = clock + 1
    /\ UNCHANGED <<pc, records, analysis, risk_vars, metrics_vars, drift_vars,
                   service_vars>>

\* the row of thread w as the INSERT writes it under the next id
Inserted(w) ==
    [id |-> Len(records) + 1,
     timestamp |-> in_flight[w].timestamp,
     model_name |-> in_flight[w].model_name,
     dir_value |-> in_flight[w].dir_value,
     alert_status |-> in_flight[w].alert_status]

\* an INSERT OR REPLACE keyed on the newest row
store_commit_replacing(w) ==
    /\ in_flight[w] /= None
    /\ records' = IF records = <<>>
                  THEN <<Inserted(w)>>
                  ELSE [records EXCEPT ![Len(records)] =
                           [Inserted(w) EXCEPT !.id = Len(records)]]
    /\ in_flight' = [in_flight EXCEPT ![w] = None]
    /\ UNCHANGED <<pc, clock, analysis, risk_vars, metrics_vars, drift_vars,
                   service_vars>>

\* session.add(record); session.commit(); return record.id
store_commit(w) ==
    /\ in_flight[w] /= None
    /\ records' = Append(records, Inserted(w))
    /\ in_flight' = [in_flight EXCEPT ![w] = None]
    /\ UNCHANGED <<pc, clock, analysis, risk_vars, metrics_vars, drift_vars,
                   service_vars>>

\* except Exception: session.rollback(); raise
store_rollback(w) ==
    /\ in_flight[w] /= None
    /\ in_flight' = [in_flight EXCEPT ![w] = None]
    /\ UNCHANGED <<pc, records, clock, analysis, risk_vars, metrics_vars,
                   drift_vars,
                   service_vars>>

\* get_record_by_id: the row with that id, or None
get_record_by_id(table, record_id) ==
    LET found == SelectSeq(table, LAMBDA r : r.id = record_id)
    IN  IF found /= <<>> THEN found[1] ELSE None

LedgerInit ==
    /\ ServiceIdle
    /\ RiskIdle
    /\ MetricsIdle
    /\ TrendIdle
    /\ fairness_trend = <<>>
    /\ db_readable \in BOOLEAN
    /\ drift_report = None
    /\ pc = "ready"

BeginCall ==
    \E w \in Writers, m \in LedgerModels, d \in LedgerValues :
        store_begin(w, m, d, d < DIR_THRESHOLD)

CommitCall == \E w \in Writers : store_commit(w)

RollbackCall == \E w \in Writers : store_rollback(w)

RecentChecksCall ==
    \E q \in TrendQueries :
        Answer("get_recent_checks", DIR_THRESHOLD, q,
               get_recent_checks(records, q.window, q.model_name))

RecordByIdCall ==
    \E record_id \in 1..(MaxLedger + 1) :
        /\ pc = "ready"
        /\ pc' = "get_record_by_id"
        /\ analysis' = [call |-> "get_record_by_id", record_id |-> record_id,
                        result |-> get_record_by_id(records, record_id)]
        /\ UNCHANGED <<store_vars, risk_vars, metrics_vars, drift_vars,
                   service_vars>>

\* the caller has its answer and makes its next call
NextCall ==
    /\ pc /= "ready"
    /\ pc' = "ready"
    /\ analysis' = None
    /\ drift_report' = None
    /\ UNCHANGED <<fairness_trend, db_readable, store_vars, risk_vars,
                   metrics_vars,
                   service_vars>>

LedgerNext ==
    \/ BeginCall
    \/ CommitCall
    \/ RollbackCall
    \/ RecentChecksCall
    \/ RecordByIdCall
    \/ TrendCall
    \/ PreAlertCall
    \/ VelocityCall
    \/ PredictCall
    \/ generate_drift_report
    \/ NextCall

SpecLedger == LedgerInit /\ [][LedgerNext]_vars

\* one thread's INSERT has gone through in this step
Committed ==
    \E w \in Writers :
        /\ in_flight[w] /= None
        /\ in_flight'[w] = None
        /\ records' = Append(records, Inserted(w))

\* C19: the history is append-only.  In every step each row stored before is
\* still returned by get_record_by_id under its id with the same fields; the
\* history changes only in the commit of a store_fairness_check, which adds
\* exactly one row; and a step in which get_recent_checks, get_record_by_id,
\* get_recent_trend, check_pre_alert, calculate_drift_velocity,
\* predict_fairness_drift or generate_drift_report answers, or in which a
\* store_fairness_check fails or only builds its row, leaves it as it was.
C19_HistoryIsAppendOnly ==
    [][/\ \A i \in 1..Len(records) :
              get_record_by_id(records', records[i].id) = records[i]
       /\ records' /= records => Committed
       /\ (pc' /= pc \/ ~Committed) => records' = records]_vars

\* A row stored first is read back by its id after two more were stored.
C19_Witness ==
    /\ pc = "get_record_by_id"
    /\ Len(records) = 3
    /\ analysis.record_id = 1
    /\ analysis.result = records[1]
    /\ analysis.result.timestamp = 0

\* C20: for each model name, the rows taken in id order have non-decreasing
\* timestamps, whatever the interleaving of the store_fairness_check calls.
C20_TimestampsFollowIds ==
    \A i \in 1..Len(records), j \in 1..Len(records) :
        (i < j /\ records[i].model_name = records[j].model_name)
            => records[i].timestamp <= records[j].timestamp


\* C25: the checks store_fairness_check appends are the history DriftMonitor
\* reads: once two or more checks are stored, generate_drift_report does not
\* return INSUFFICIENT_DATA and its current_value is the DIR of the check
\* stored last.
C25_DriftMonitorReadsStoredChecks ==
    (pc = "generate_drift_report" /\ Len(records) >= 2) =>
        /\ "status" \notin DOMAIN drift_report
        /\ drift_report.current_value = records[Len(records)].dir_value


(***************************************************************************)
(* Reading the newest checks: two threads store checks of two models, so   *)
(* that rows can be committed out of the order of their timestamps, and    *)
(* get_recent_checks and get_recent_trend are asked for fewer rows than    *)
(* are stored.                                                             *)
(***************************************************************************)
RecentValues == {79996, 90000}
RecentQueries == [window : {1, 2}, model_name : {NoModel} \cup LedgerModels]

RecentBeginCall ==
    \E w \in Writers, m \in LedgerModels, d \in RecentValues :
        store_begin(w, m, d, d < DIR_THRESHOLD)

RecentChecksOf ==
    \E q \in RecentQueries :
        Answer("get_recent_checks", DIR_THRESHOLD, q,
               get_recent_checks(records, q.window, q.model_name))

RecentTrendOf ==
    \E q \in RecentQueries, err \in FloatErr :
        Answer("get_recent_trend", DIR_THRESHOLD, q,
               get_recent_trend(records, q.window, q.model_name, err))

RecentNext ==
    \/ RecentBeginCall
    \/ CommitCall
    \/ RollbackCall
    \/ RecentChecksOf
    \/ RecentTrendOf

SpecRecent == LedgerInit /\ [][RecentNext]_vars

\* The positions in the table of the rows a query is about, and how many
\* rows it is to return.
OfModel(table, model_name) ==
    {i \in 1..Len(table) : model_name = NoModel \/ table[i].model_name = model_name}
ExpectedCount(table, q) == Min(q.window, Cardinality(OfModel(table, q.model_name)))

\* how many rows of the model are newer than row i
NewerThan(table, model_name, i) ==
    Cardinality({j \in OfModel(table, model_name) :
                     table[j].timestamp > table[i].timestamp})

\* C22: get_recent_checks(limit, model_name) returns at most `limit` rows, all
\* of the given model, namely those with the greatest timestamps for that
\* model, most recent first; get_recent_trend reverses them, so that
\* dir_values is in chronological order and data_points = min(limit, number
\* of rows of that model).  Stated of the step in which the call answers,
\* about the table it read.
C22_NewestFirstThenChronological ==
    [][(pc = "ready" /\ pc' \in {"get_recent_checks", "get_recent_trend"}) =>
          LET q == analysis'
              n == ExpectedCount(records, q)
              mine == OfModel(records, q.model_name)
          IN  IF pc' = "get_recent_checks"
              THEN /\ Len(q.result) = n
                   /\ n <= q.window
                   /\ \A k \in 1..n :
                          \E i \in mine :
                              /\ q.result[k] = records[i]
                              /\ NewerThan(records, q.model_name, i) = k - 1
              ELSE /\ q.result.data_points = n
                   /\ n > 0 =>
                          /\ Len(q.result.dir_values) = n
                          /\ \A k \in 1..n :
                                 \E i \in mine :
                                     /\ q.result.dir_values[k]
                                            = Round4(Rat(records[i].dir_value, 1))
                                     /\ NewerThan(records, q.model_name, i) = n - k]_vars

\* Three rows of one model, the second committed with the oldest timestamp:
\* asked for 2 rows, get_recent_checks returns the rows with id 3 and 1 in
\* that order.
C22_Witness ==
    /\ pc = "get_recent_checks"
    /\ analysis.window = 2
    /\ analysis.model_name = "loan_approval_v1"
    /\ Len(records) = 3
    /\ \A i \in 1..3 : records[i].model_name = "loan_approval_v1"
    /\ Len(analysis.result) = 2
    /\ analysis.result[1].id = 3
    /\ analysis.result[2].id = 1


(***************************************************************************)
(* predict_fairness_drift while another thread stores a check.  The call   *)
(* reads the table twice, each read in a session of its own:               *)
(* get_recent_trend first, calculate_drift_velocity second.                *)
(***************************************************************************)
MaxSnapshot == 3
SnapshotValues == {80000, 100000}

SnapshotInit ==
    /\ ServiceIdle
    /\ RiskIdle
    /\ MetricsIdle
    /\ DriftIdle
    /\ pc = "ready"
    /\ analysis = None
    /\ \E n \in 0..MaxSnapshot :
           \E values \in [1..n -> SnapshotValues] :
               /\ records = HistoryOf(values)
               /\ clock = n
    /\ in_flight = NoWrite

\* store_fairness_check run by another request thread, at any time
StoreMeanwhile ==
    \E d \in SnapshotValues :
        /\ Len(records) <= MaxSnapshot
        /\ records' = stored(records, clock, "loan_approval_v1", d, d < DIR_THRESHOLD)
        /\ clock' = clock + 1
        /\ UNCHANGED <<pc, in_flight, analysis, risk_vars, metrics_vars, drift_vars,
                   service_vars>>

\* trend_data = get_recent_trend(window=window, model_name=model_name)
predict_read_trend ==
    \E q \in TrendQueries, threshold \in PredictThresholds, err_t \in FloatErr :
        /\ pc = "ready"
        /\ pc' = "predict_fairness_drift:55"
        /\ analysis' = [call |-> "predict_fairness_drift", threshold |-> threshold,
                        window |-> q.window, model_name |-> q.model_name,
                        trend_data |-> get_recent_trend(records, q.window,
                                                        q.model_name, err_t)]
        /\ UNCHANGED <<store_vars, risk_vars, metrics_vars, drift_vars,
                   service_vars>>

\* velocity_data = calculate_drift_velocity(...), and the rest of the call
predict_read_velocity ==
    \E err_v \in FloatErr :
        /\ pc = "predict_fairness_drift:55"
        /\ pc' = "predict_fairness_drift"
        /\ analysis' =
              [call |-> "predict_fairness_drift", threshold |-> analysis.threshold,
               window |-> analysis.window, model_name |-> analysis.model_name,
               result |-> prediction_of(
                   analysis.trend_data,
                   calculate_drift_velocity(records, analysis.window,
                                            analysis.model_name, err_v),
                   estimate_made(chronological(
                       get_recent_checks(records, analysis.window,
                                         analysis.model_name))),
                   analysis.threshold)]
        /\ UNCHANGED <<store_vars, risk_vars, metrics_vars, drift_vars,
                   service_vars>>

SnapshotNext == StoreMeanwhile \/ predict_read_trend \/ predict_read_velocity

SpecSnapshot == SnapshotInit /\ [][SnapshotNext]_vars

\* Two answers are the same dict; the values are compared as printed, since a
\* field of one can be a number where the other has None.
SameAnswer(a, b) ==
    /\ DOMAIN a = DOMAIN b
    /\ \A key \in DOMAIN a : ToString(a[key]) = ToString(b[key])

\* C21: predict_fairness_drift derives its trend summary and its velocity,
\* acceleration flag and estimate from one and the same snapshot of the
\* window, also when a check is stored during the call: what the call
\* answers is what it would answer had it read one state of the table, and
\* the table being append-only, that state is the first k rows of the
\* table for some k.
C21_OneSnapshot ==
    [][(pc = "predict_fairness_drift:55" /\ pc' = "predict_fairness_drift") =>
          \E k \in 0..Len(records), err_t \in FloatErr, err_v \in FloatErr :
              SameAnswer(analysis'.result,
                         predict_fairness_drift(SubSeq(records, 1, k),
                                                analysis.window, analysis.model_name,
                                                analysis.threshold, err_t, err_v))]_vars


(***************************************************************************)
(* EnhancedExplainer.generate_remediation_suggestions                      *)
(* (explainability_enhanced.py).  A suggestion is its priority, category   *)
(* and expected_impact; the suggestion and action texts are fixed per      *)
(* category but for the feature name and the numbers they quote, and are   *)
(* left out.  top_contributors is the list of the contributors' mean       *)
(* differences; current_dir and velocity are in ticks.                     *)
(***************************************************************************)
Suggestion(priority, category, expected_impact) ==
    [priority |-> priority, category |-> category,
     expected_impact |-> expected_impact]

\* if cond: suggestions.append(suggestion)
AppendIf(cond, suggestion) == IF cond THEN <<suggestion>> ELSE <<>>

\* an if/elif chain: the first rule that holds, and no other
generate_remediation_suggestions_short_circuit(top_contributors, current_dir, velocity, risk_level) ==
    IF risk_level = "HIGH" \/ current_dir < 75000
    THEN <<Suggestion("CRITICAL", "Model Retraining", "HIGH")>>
    ELSE IF top_contributors /= <<>> /\ Abs(top_contributors[1]) > 0
    THEN <<Suggestion("HIGH", "Feature Engineering", "MEDIUM-HIGH")>>
    ELSE IF velocity < -1000
    THEN <<Suggestion("MEDIUM", "Preventive Monitoring", "MEDIUM")>>
    ELSE IF Len(top_contributors) >= 2
    THEN <<Suggestion("MEDIUM", "Data Quality", "MEDIUM")>>
    ELSE IF current_dir < 80000 /\ current_dir >= 75000
    THEN <<Suggestion("MEDIUM", "Bias Mitigation", "MEDIUM-HIGH")>>
    ELSE IF risk_level = "LOW" /\ current_dir >= 90000
    THEN <<Suggestion("LOW", "Best Practices", "LOW")>>
    ELSE <<>>

generate_remediation_suggestions(top_contributors, current_dir, velocity, risk_level) ==
    AppendIf(risk_level = "HIGH" \/ current_dir < 75000,
             Suggestion("CRITICAL", "Model Retraining", "HIGH"))
    \o AppendIf(top_contributors /= <<>> /\ Abs(top_contributors[1]) > 0,
                Suggestion("HIGH", "Feature Engineering", "MEDIUM-HIGH"))
    \o AppendIf(velocity < -1000,
                Suggestion("MEDIUM", "Preventive Monitoring", "MEDIUM"))
    \o AppendIf(Len(top_contributors) >= 2,
                Suggestion("MEDIUM", "Data Quality", "MEDIUM"))
    \o AppendIf(current_dir < 80000 /\ current_dir >= 75000,
                Suggestion("MEDIUM", "Bias Mitigation", "MEDIUM-HIGH"))
    \o AppendIf(risk_level = "LOW" /\ current_dir >= 90000,
                Suggestion("LOW", "Best Practices", "LOW"))

MaxContributors == 3
RemedyDifferences == {-50000, 0, 150000}
RemedyCurrents == {74999, 75000, 79999, 80000, 89999, 90000}
RemedyVelocities == {-1001, -1000, 0}
RiskLevels == {"HIGH", "MEDIUM", "LOW"}

RemedyInit ==
    /\ FairnessIdle
    /\ AuthIdle /\ AnchorIdle /\ RegistryIdle
    /\ \E n \in 0..MaxContributors :
           explain_args \in [top_contributors : [1..n -> RemedyDifferences],
                             current_dir : RemedyCurrents,
                             velocity : RemedyVelocities,
                             risk_level : RiskLevels]
    /\ explain_out = None
    /\ pc = "ready"

RemedyCall ==
    /\ pc = "ready"
    /\ pc' = "generate_remediation_suggestions"
    /\ explain_out' = generate_remediation_suggestions(
                          explain_args.top_contributors, explain_args.current_dir,
                          explain_args.velocity, explain_args.risk_level)
    /\ UNCHANGED <<explain_args, fairness_vars, auth_vars, anchor_vars,
                   registry_vars>>

SpecRemedy == RemedyInit /\ [][RemedyCall]_vars

RemedyDone == pc = "generate_remediation_suggestions"

\* The rules in their fixed order, and the condition of each.
RuleOrder ==
    <<"Model Retraining", "Feature Engineering", "Preventive Monitoring",
      "Data Quality", "Bias Mitigation", "Best Practices">>
RuleHolds(category) ==
    LET a == explain_args
    IN  CASE category = "Model Retraining" ->
                 a.risk_level = "HIGH" \/ a.current_dir < 75000
          [] category = "Feature Engineering" ->
                 Len(a.top_contributors) >= 1 /\ a.top_contributors[1] /= 0
          [] category = "Preventive Monitoring" -> a.velocity < -1000
          [] category = "Data Quality" -> Len(a.top_contributors) >= 2
          [] category = "Bias Mitigation" ->
                 75000 <= a.current_dir /\ a.current_dir < 80000
          [] category = "Best Practices" ->
                 a.risk_level = "LOW" /\ a.current_dir >= 90000

\* C24: generate_remediation_suggestions returns exactly the suggestions of
\* the rules whose condition holds, none left out because an earlier rule
\* fired, in the fixed order Model Retraining, Feature Engineering (the top
\* contributor has a non-zero difference), Preventive Monitoring, Data
\* Quality, Bias Mitigation, Best Practices; the list is a function of the
\* inputs alone.
C24_AllFiringRulesInOrder ==
    RemedyDone =>
        /\ [k \in 1..Len(explain_out) |-> explain_out[k].category]
               = SelectSeq(RuleOrder, RuleHolds)
        /\ explain_out = generate_remediation_suggestions(
                             explain_args.top_contributors, explain_args.current_dir,
                             explain_args.velocity, explain_args.risk_level)

\* Four rules fire at once: HIGH risk at DIR 0.75 with a falling velocity and
\* one disparate feature.
C24_Witness ==
    /\ RemedyDone
    /\ explain_args.risk_level = "HIGH"
    /\ explain_args.current_dir = 75000
    /\ explain_args.velocity = -1001
    /\ Len(explain_args.top_contributors) = 1
    /\ Len(explain_out) = 4
    /\ explain_out[1].category = "Model Retraining"
    /\ explain_out[4].category = "Bias Mitigation"

(***************************************************************************)
(* ModelRegistry (model_registry.py).  The registry is the dictionary      *)
(* {'models': [...], 'active_model': id or None}; every operation below    *)
(* ends with _save_registry, so the file and the dictionary agree.  A      *)
(* model_id is f"model_{version}_{%Y%m%d_%H%M%S}": the version and the     *)
(* second of the registration.                                             *)
(***************************************************************************)
MaxModels == 3
Versions == {"v1", "v2"}
Seconds == {1, 2}
ModelIds == [version : Versions, stamp : Seconds]

model_entry(model_id, status) ==
    [model_id |-> model_id, version |-> model_id.version, status |-> status]

Registered(reg, model_id) ==
    \E i \in 1..Len(reg.models) : reg.models[i].model_id = model_id

\* the first entry of that id (the loops of lines 133 and 190 stop there)
FirstOf(reg, model_id) ==
    CHOOSE i \in 1..Len(reg.models) :
        /\ reg.models[i].model_id = model_id
        /\ \A j \in 1..(i - 1) : reg.models[j].model_id /= model_id

\* register_model with the test of line 80 left out
register_model_activating(reg, version, now) ==
    LET model_id == [version |-> version, stamp |-> now]
    IN  [registry |-> [models |-> Append(reg.models, model_entry(model_id, "active")),
                       active_model |-> model_id],
         result |-> model_id]

register_model(reg, version, now) ==
    LET model_id == [version |-> version, stamp |-> now]
    IN  [registry |-> [models |-> Append(reg.models, model_entry(model_id, "active")),
                       active_model |-> IF reg.active_model = None
                                        THEN model_id
                                        ELSE reg.active_model],
         result |-> model_id]

set_active_model(reg, model_id) ==
    IF Registered(reg, model_id)
    THEN [registry |-> [reg EXCEPT !.active_model = model_id], result |-> TRUE]
    ELSE [registry |-> reg, result |-> FALSE]

archive_model(reg, model_id) ==
    IF Registered(reg, model_id)
    THEN [registry |-> [reg EXCEPT !.models[FirstOf(reg, model_id)].status = "archived"],
          result |-> TRUE]
    ELSE [registry |-> reg, result |-> FALSE]

RegistryInit ==
    /\ FairnessIdle
    /\ ExplainIdle /\ AuthIdle /\ AnchorIdle
    /\ RegistryIdle
    /\ pc = "ready"

RegistryDone(call, model_id, done) ==
    /\ registry' = done.registry
    /\ registry_out' = [call |-> call, model_id |-> model_id,
                        result |-> done.result]
    /\ UNCHANGED <<pc, fairness_vars, explain_vars, auth_vars, anchor_vars>>

RegisterCall ==
    /\ Len(registry.models) < MaxModels
    /\ \E version \in Versions, now \in Seconds :
           RegistryDone("register_model", [version |-> version, stamp |-> now],
                        register_model(registry, version, now))

SetActiveCall ==
    \E model_id \in ModelIds :
        RegistryDone("set_active_model", model_id,
                     set_active_model(registry, model_id))

ArchiveCall ==
    \E model_id \in ModelIds :
        RegistryDone("archive_model", model_id,
                     archive_model(registry, model_id))

RegistryNext == RegisterCall \/ SetActiveCall \/ ArchiveCall

SpecRegistry == RegistryInit /\ [][RegistryNext]_vars

\* The call that made the step, read from its answer.
Called(call) == registry_out'.call = call

\* C29: active_model is None exactly while no model is registered; the first
\* register_model sets it to the new id and later ones leave it alone;
\* set_active_model changes it only to a registered id and otherwise returns
\* False and leaves the registry as it was; archive_model never changes it;
\* so an active_model that is not None is the id of a registered model.
C29_ActiveModelStaysValid ==
    [][ /\ (registry'.active_model = None) <=> (Len(registry'.models) = 0)
        /\ registry'.active_model /= None
               => Registered(registry', registry'.active_model)
        /\ Called("register_model") =>
               /\ Len(registry'.models) = Len(registry.models) + 1
               /\ registry'.active_model =
                      IF Len(registry.models) = 0
                      THEN registry_out'.result
                      ELSE registry.active_model
        /\ Called("set_active_model") =>
               /\ registry_out'.result = Registered(registry, registry_out'.model_id)
               /\ registry_out'.result
                      => registry'.active_model = registry_out'.model_id
               /\ ~registry_out'.result => registry' = registry
        /\ Called("archive_model") =>
               registry'.active_model = registry.active_model
      ]_vars

C29_Witness ==
    /\ Len(registry.models) = 3
    /\ registry.models[1].status = "archived"
    /\ registry.active_model = registry.models[2].model_id
    /\ registry.models[1].model_id /= registry.models[2].model_id
    /\ registry_out /= None
    /\ registry_out.call = "register_model"

(***************************************************************************)
(* blockchain_anchor.py.  The anchor log is a JSONL file; anchor_to_       *)
(* blockchain reads its last line for the next block number (line 86) and  *)
(* appends the new anchor later (line 102).  The request threads of the    *)
(* server share the file and nothing locks it, so the read and the append  *)
(* of one call are two steps.                                              *)
(***************************************************************************)
MaxAnchors == 4
Hashes == {"h1", "h2"}
STARTING_BLOCK == 1000000

\* the anchors of the last `limit` lines of the log
get_recent_anchors(log, limit) ==
    IF Len(log) > limit
    THEN SubSeq(log, Len(log) - limit + 1, Len(log))
    ELSE log

_get_next_block_number(log) ==
    LET anchors == get_recent_anchors(log, 1)
    IN  IF anchors /= <<>>
        THEN anchors[Len(anchors)].block_number + 1
        ELSE STARTING_BLOCK

_save_anchor(log, anchor) == Append(log, anchor)

AnchorsBegun ==
    Len(anchor_log) + Cardinality({w \in Writers : anchor_pending[w] /= None})

AnchorInit ==
    /\ FairnessIdle
    /\ ExplainIdle /\ AuthIdle /\ RegistryIdle
    /\ AnchorIdle
    /\ pc = "ready"

\* lines 83-99: the block number is taken and the anchor is built
anchor_read(w, record_hash) ==
    /\ anchor_pending[w] = None
    /\ AnchorsBegun < MaxAnchors
    /\ anchor_pending' =
           [anchor_pending EXCEPT
               ![w] = [block_number |-> _get_next_block_number(anchor_log),
                       record_hash |-> record_hash]]
    /\ UNCHANGED <<anchor_log, pc, fairness_vars, explain_vars, auth_vars,
                   registry_vars>>

\* line 102: the anchor is appended to the log
anchor_save(w) ==
    /\ anchor_pending[w] /= None
    /\ anchor_log' = _save_anchor(anchor_log, anchor_pending[w])
    /\ anchor_pending' = [anchor_pending EXCEPT ![w] = None]
    /\ UNCHANGED <<pc, fairness_vars, explain_vars, auth_vars, registry_vars>>

AnchorReadStep == \E w \in Writers, record_hash \in Hashes : anchor_read(w, record_hash)
AnchorSaveStep == \E w \in Writers : anchor_save(w)
AnchorNext == AnchorReadStep \/ AnchorSaveStep

SpecAnchor == AnchorInit /\ [][AnchorNext]_vars

\* C28: the first anchor of the log has block 1000000 and every later one has
\* the block number of the anchor before it plus 1, so block numbers are
\* distinct and increase in log order, also when calls run concurrently.
C28_BlockNumbersIncrease ==
    \A i \in 1..Len(anchor_log) :
        anchor_log[i].block_number =
            IF i = 1 THEN STARTING_BLOCK
            ELSE anchor_log[i - 1].block_number + 1

(***************************************************************************)
(* auth.py.  A token is its payload (the signature is taken as sound):     *)
(* type, username, jti (refresh tokens only) and exp, in seconds.          *)
(* REFRESH_TOKENS is the module's set of the jti that are still good.      *)
(* jwt.decode rejects a token from the second of its exp on.               *)
(***************************************************************************)
ACCESS_TOKEN_EXPIRE == 900
REFRESH_TOKEN_EXPIRE == 2592000
MaxLogins == 2
USERS_DB == {"admin"}
Usernames == USERS_DB \cup {"guest"}
NoJti == 0

\* the moments at which requests arrive
Instants ==
    {0, ACCESS_TOKEN_EXPIRE, REFRESH_TOKEN_EXPIRE,
     REFRESH_TOKEN_EXPIRE + ACCESS_TOKEN_EXPIRE}

create_access_token(username, now) ==
    [type |-> "access", username |-> username, jti |-> NoJti,
     exp |-> now + ACCESS_TOKEN_EXPIRE]

\* token_id stands for secrets.token_urlsafe(32): never seen before
create_refresh_token(username, now, token_id) ==
    [type |-> "refresh", username |-> username, jti |-> token_id,
     exp |-> now + REFRESH_TOKEN_EXPIRE]

decode_token(token, now) ==
    IF now >= token.exp
    THEN [valid |-> FALSE, error |-> "Token has expired"]
    ELSE [valid |-> TRUE, error |-> ""]

AuthFailure(message) ==
    [success |-> FALSE, message |-> message, access_token |-> None]

\* refresh_access_token without the test of line 142
refresh_access_token_unchecked(token, tokens, now) ==
    LET result == decode_token(token, now)
    IN  IF ~result.valid THEN AuthFailure(result.error)
        ELSE IF token.type /= "refresh" THEN AuthFailure("Invalid token type")
        ELSE [success |-> TRUE, message |-> "",
              access_token |-> create_access_token(token.username, now)]

refresh_access_token(token, tokens, now) ==
    LET result == decode_token(token, now)
    IN  IF ~result.valid THEN AuthFailure(result.error)
        ELSE IF token.type /= "refresh" THEN AuthFailure("Invalid token type")
        ELSE IF token.jti \notin tokens
             THEN AuthFailure("Refresh token has been revoked")
        ELSE [success |-> TRUE, message |-> "",
              access_token |-> create_access_token(token.username, now)]

revoke_refresh_token(token, tokens, now) ==
    IF decode_token(token, now).valid /\ token.jti /= NoJti
    THEN [result |-> TRUE, tokens |-> tokens \ {token.jti}]
    ELSE [result |-> FALSE, tokens |-> tokens]

RefreshIssued == {t \in auth_issued : t.type = "refresh"}

AuthInit ==
    /\ FairnessIdle
    /\ ExplainIdle /\ AnchorIdle /\ RegistryIdle
    /\ AuthIdle
    /\ pc = "ready"

AuthOthers == <<pc, fairness_vars, explain_vars, anchor_vars, registry_vars>>

LoginCall ==
    /\ Cardinality(RefreshIssued) < MaxLogins
    /\ \E username \in Usernames, password_ok \in BOOLEAN :
           IF username \in USERS_DB /\ password_ok
           THEN LET access_token == create_access_token(username, auth_now)
                    refresh_token ==
                        create_refresh_token(username, auth_now,
                                             Cardinality(RefreshIssued) + 1)
                IN  /\ auth_issued' = auth_issued \cup {access_token, refresh_token}
                    /\ REFRESH_TOKENS' = REFRESH_TOKENS \cup {refresh_token.jti}
                    /\ auth_out' = [call |-> "authenticate_user", token |-> None,
                                    success |-> TRUE, message |-> "",
                                    access_token |-> access_token,
                                    refresh_token |-> refresh_token]
           ELSE /\ auth_out' = [call |-> "authenticate_user", token |-> None,
                                success |-> FALSE,
                                message |-> "Invalid username or password",
                                access_token |-> None, refresh_token |-> None]
                /\ UNCHANGED <<auth_issued, REFRESH_TOKENS>>
    /\ UNCHANGED <<auth_now, AuthOthers>>

RefreshCall ==
    /\ \E token \in auth_issued :
           LET done == refresh_access_token(token, REFRESH_TOKENS, auth_now)
           IN  /\ auth_out' = [call |-> "refresh_access_token", token |-> token,
                               success |-> done.success, message |-> done.message,
                               access_token |-> done.access_token,
                               refresh_token |-> None]
               /\ auth_issued' = IF done.success
                                 THEN auth_issued \cup {done.access_token}
                                 ELSE auth_issued
    /\ UNCHANGED <<REFRESH_TOKENS, auth_now, AuthOthers>>

RevokeCall ==
    /\ \E token \in auth_issued :
           LET done == revoke_refresh_token(token, REFRESH_TOKENS, auth_now)
           IN  /\ REFRESH_TOKENS' = done.tokens
               /\ auth_out' = [call |-> "revoke_refresh_token", token |-> token,
                               success |-> done.result, message |-> "",
                               access_token |-> None, refresh_token |-> None]
    /\ UNCHANGED <<auth_issued, auth_now, AuthOthers>>

\* time passes between two requests
TimePasses ==
    /\ \E now \in Instants : now > auth_now /\ auth_now' = now
    /\ UNCHANGED <<auth_issued, REFRESH_TOKENS, auth_out, AuthOthers>>

AuthNext == LoginCall \/ RefreshCall \/ RevokeCall \/ TimePasses

SpecAuth == AuthInit /\ [][AuthNext]_vars

\* The request that made the step, read from its answer.
Asked(call) == auth_now' = auth_now /\ auth_out'.call = call
Revoked(token) == token.type = "refresh" /\ token.jti \notin REFRESH_TOKENS
Expired(token) == auth_now >= token.exp

\* A jti that has left REFRESH_TOKENS never comes back, and a revocation
\* that returns true takes the token's jti out.
RevocationSticks ==
    /\ \A t \in RefreshIssued : Revoked(t) => t.jti \notin REFRESH_TOKENS'
    /\ Asked("revoke_refresh_token") /\ auth_out'.success
           => auth_out'.token.jti \notin REFRESH_TOKENS'

\* C27 (as stated): revocation is permanent: an issued refresh token is
\* accepted by refresh_access_token until it is revoked; once
\* revoke_refresh_token has returned true for it, every later refresh with it
\* fails with 'Refresh token has been revoked', whatever happens in between;
\* an access token is never accepted.
C27_RevocationIsPermanent ==
    [][ /\ RevocationSticks
        /\ Asked("refresh_access_token") =>
               LET t == auth_out'.token
               IN  /\ t.type = "access" => ~auth_out'.success
                   /\ t.type = "refresh" /\ ~Revoked(t) => auth_out'.success
                   /\ Revoked(t) =>
                          /\ ~auth_out'.success
                          /\ auth_out'.message = "Refresh token has been revoked"
      ]_vars

\* C27 (amended): revocation lasts: a refresh token is accepted while it is
\* neither revoked nor expired; once revoked it is never accepted again: the
\* refresh fails with 'Refresh token has been revoked' until the token's
\* expiry and with 'Token has expired' from then on, as it does for every
\* expired token; an access token is never accepted.
C27_RevocationLasts ==
    [][ /\ RevocationSticks
        /\ Asked("refresh_access_token") =>
               LET t == auth_out'.token
               IN  /\ t.type = "access" => ~auth_out'.success
                   /\ Revoked(t) => ~auth_out'.success
                   /\ t.type = "refresh" /\ ~Revoked(t) /\ ~Expired(t)
                          => auth_out'.success
                   /\ Revoked(t) /\ ~Expired(t)
                          => auth_out'.message = "Refresh token has been revoked"
                   /\ Expired(t) =>
                          /\ ~auth_out'.success
                          /\ auth_out'.message = "Token has expired"
      ]_vars

\* A revoked token is refused after time has passed and while a token of a
\* later login is still good.
C27_Witness ==
    /\ auth_out /= None
    /\ auth_out.call = "refresh_access_token"
    /\ auth_out.message = "Refresh token has been revoked"
    /\ auth_out.token.jti = 1
    /\ REFRESH_TOKENS = {2}
    /\ auth_now = ACCESS_TOKEN_EXPIRE

(***************************************************************************)
(* EnhancedExplainer.analyze_feature_contributions                         *)
(* (explainability_enhanced.py 27-99).  Feature values and importances are *)
(* integers.  A score is a mean difference divided by a standard           *)
(* deviation, so it is kept exactly as sign * sqrt(sq) with sq a fraction. *)
(***************************************************************************)
MaxFeatures == 4
FeatureNames ==
    <<"credit_score", "income", "loan_amount", "employment_years", "age",
      "debt_ratio">>
\* one column of the dataframe, row by row
ColumnValues == {<<1, 1, 1, 1>>, <<0, 0, 2, 2>>, <<2, 1, 1, 0>>}
GroupLabels == {<<0, 0, 1, 1>>}
Importances == {1, 2}
Missing == 0 - 1

Sgn(x) == IF x > 0 THEN 1 ELSE IF x < 0 THEN 0 - 1 ELSE 0
Surd(sign, sq) == [sign |-> sign, sq |-> sq]
SurdZero == Surd(0, Rat(0, 1))
SurdLt(a, b) ==
    IF a.sign /= b.sign THEN a.sign < b.sign
    ELSE IF a.sign = 1 THEN RatLt(a.sq, b.sq)
    ELSE IF a.sign = 0 - 1 THEN RatLt(b.sq, a.sq)
    ELSE FALSE
SurdEq(a, b) == ~SurdLt(a, b) /\ ~SurdLt(b, a)

\* data.loc[mask, feature]: the sum and the number of the rows of one group
GroupSum(column, groups, g) ==
    SumTo([i \in 1..Len(column) |-> IF groups[i] = g THEN column[i] ELSE 0], Len(column))

\* mean_diff = protected_mean - privileged_mean, both groups having rows
mean_difference(column, groups) ==
    Rat(GroupSum(column, groups, 1) * GroupSize(groups, 0)
            - GroupSum(column, groups, 0) * GroupSize(groups, 1),
        GroupSize(groups, 1) * GroupSize(groups, 0))

\* data[feature].std() squared: the sample variance (ddof = 1), two rows or
\* more
overall_variance(column) ==
    LET n == Len(column)
        Sx == SumTo(column, n)
        Sxx == SumTo([i \in 1..n |-> column[i] * column[i]], n)
    IN  Rat(n * Sxx - Sx * Sx, n * (n - 1))

\* mean_diff / overall_std if overall_std > 0 else 0
normalized_difference(column, groups) ==
    LET mean_diff == mean_difference(column, groups)
        variance == overall_variance(column)
    IN  IF variance.num > 0
        THEN Surd(Sgn(mean_diff.num),
                  Rat(mean_diff.num * mean_diff.num * variance.den,
                      mean_diff.den * mean_diff.den * variance.num))
        ELSE SurdZero

\* feature_importance.get(feature, 0)
importance_of(feature_importance, feature) ==
    IF feature \in DOMAIN feature_importance
    THEN feature_importance[feature]
    ELSE 0

\* abs(normalized_diff) * importance
contribution_score(normalized_diff, importance) ==
    Surd(Abs(normalized_diff.sign) * Sgn(importance),
         Rat(normalized_diff.sq.num * importance * importance,
             normalized_diff.sq.den))

feature_analysis(feature, column, groups, feature_importance) ==
    LET mean_diff == mean_difference(column, groups)
        normalized_diff == normalized_difference(column, groups)
        importance == importance_of(feature_importance, feature)
    IN  [feature |-> feature,
         mean_difference |-> mean_diff,
         normalized_difference |-> normalized_diff,
         feature_importance |-> importance,
         contribution_score |-> contribution_score(normalized_diff, importance),
         direction |-> IF mean_diff.num > 0 THEN "protected_higher"
                       ELSE "privileged_higher"]

Without(items, i) == SubSeq(items, 1, i - 1) \o SubSeq(items, i + 1, Len(items))

RECURSIVE ranked_features_ascending(_)
\* sorted(...) without reverse=True: ascending, equal scores in the order met
ranked_features_ascending(items) ==
    IF items = <<>> THEN <<>>
    ELSE LET first == CHOOSE i \in 1..Len(items) :
                 /\ \A j \in 1..Len(items) :
                        ~SurdLt(items[j].contribution_score, items[i].contribution_score)
                 /\ \A j \in 1..(i - 1) :
                        SurdLt(items[i].contribution_score, items[j].contribution_score)
         IN  <<items[first]>> \o ranked_features_ascending(Without(items, first))

RECURSIVE ranked_features(_)
\* sorted(feature_analysis.items(), key=contribution_score, reverse=True):
\* descending, equal scores in the order met
ranked_features(items) ==
    IF items = <<>> THEN <<>>
    ELSE LET first == CHOOSE i \in 1..Len(items) :
                 /\ \A j \in 1..Len(items) :
                        ~SurdLt(items[i].contribution_score, items[j].contribution_score)
                 /\ \A j \in 1..(i - 1) :
                        SurdLt(items[j].contribution_score, items[i].contribution_score)
         IN  <<items[first]>> \o ranked_features(Without(items, first))

top_contributor(item) ==
    [feature |-> item.feature, score |-> item.contribution_score,
     difference |-> item.mean_difference, importance |-> item.feature_importance]

analyze_feature_contributions(columns, data, protected_attr, feature_importance) ==
    LET items == [i \in 1..Len(columns) |->
                     feature_analysis(columns[i], data[columns[i]],
                                      protected_attr, feature_importance)]
        ranked == ranked_features(items)
    IN  [feature_contributions |-> ranked,
         top_contributors |->
             [k \in 1..Min(3, Len(ranked)) |-> top_contributor(ranked[k])]]

Columns(n) == [i \in 1..n |-> FeatureNames[i]]

ContributionInit ==
    /\ FairnessIdle
    /\ AuthIdle /\ AnchorIdle /\ RegistryIdle
    /\ \E n \in 0..MaxFeatures :
         \E values \in [1..n -> ColumnValues],
            importances \in [1..n -> Importances \cup {Missing}],
            groups \in GroupLabels :
                explain_args =
                    [columns |-> Columns(n),
                     data |-> [f \in {FeatureNames[i] : i \in 1..n} |->
                                  values[CHOOSE i \in 1..n : FeatureNames[i] = f]],
                     protected_attribute |-> groups,
                     feature_importance |->
                         [f \in {FeatureNames[i] : i \in {j \in 1..n : importances[j] /= Missing}} |->
                             importances[CHOOSE i \in 1..n : FeatureNames[i] = f]]]
    /\ explain_out = None
    /\ pc = "ready"

ContributionCall ==
    /\ pc = "ready"
    /\ pc' = "analyze_feature_contributions"
    /\ explain_out' = analyze_feature_contributions(
                          explain_args.columns, explain_args.data,
                          explain_args.protected_attribute,
                          explain_args.feature_importance)
    /\ UNCHANGED <<explain_args, fairness_vars, auth_vars, anchor_vars,
                   registry_vars>>

SpecContribution == ContributionInit /\ [][ContributionCall]_vars

ContributionDone == pc = "analyze_feature_contributions"

\* |normalized_difference| * importance as the statement gives it, from the
\* arguments of the call
StatedScore(feature) ==
    LET column == explain_args.data[feature]
        groups == explain_args.protected_attribute
        importance == IF feature \in DOMAIN explain_args.feature_importance
                      THEN explain_args.feature_importance[feature]
                      ELSE 0
        mean_diff == mean_difference(column, groups)
        variance == overall_variance(column)
    IN  IF variance.num = 0 \/ importance = 0 \/ mean_diff.num = 0
        THEN SurdZero
        ELSE Surd(1, Rat(mean_diff.num * mean_diff.num * variance.den * importance * importance,
                         mean_diff.den * mean_diff.den * variance.num))

\* C23: feature_contributions holds every feature once, each with
\* contribution_score = |normalized_difference| * importance (importance 0
\* for a feature missing from the importance map, normalized_difference 0
\* when the overall standard deviation is 0), in non-increasing order of
\* that score; top_contributors is the first min(3, number of features)
\* entries of that list, in the same order.
C23_RankedByContribution ==
    ContributionDone =>
        LET ranked == explain_out.feature_contributions
            top == explain_out.top_contributors
            n == Len(explain_args.columns)
        IN  /\ Len(ranked) = n
            /\ \A i \in 1..n : \E k \in 1..n : ranked[k].feature = explain_args.columns[i]
            /\ \A k \in 1..n :
                   SurdEq(ranked[k].contribution_score, StatedScore(ranked[k].feature))
            /\ \A k \in 1..(n - 1) :
                   ~SurdLt(ranked[k].contribution_score, ranked[k + 1].contribution_score)
            /\ Len(top) = Min(3, n)
            /\ \A k \in 1..Len(top) :
                   /\ top[k].feature = ranked[k].feature
                   /\ SurdEq(top[k].score, ranked[k].contribution_score)

C23_Witness ==
    /\ ContributionDone
    /\ Len(explain_out.feature_contributions) = 4
    /\ Len(explain_out.top_contributors) = 3
    /\ explain_out.feature_contributions[1].feature = "loan_amount"
    /\ explain_out.feature_contributions[2].feature = "credit_score"
    /\ SurdLt(explain_out.feature_contributions[2].contribution_score,
              explain_out.feature_contributions[1].contribution_score)
    /\ explain_out.feature_contributions[3].feature_importance = 0
    /\ "income" \notin DOMAIN explain_args.feature_importance
    /\ explain_out.feature_contributions[4].normalized_difference = SurdZero
    /\ explain_out.feature_contributions[4].feature_importance = 2

====
